---------------------------- MODULE Spec2Model ----------------------------
(***************************************************************************)
(* A model of the enum bridges, the sentinel-terminated profile iterator   *)
(* and the delimiter-splitting accessors of rust-ffmpeg-next.              *)
(*                                                                         *)
(* A native discriminant is written by the name the native headers give    *)
(* it ("AVCOL_PRI_BT709"); a raw value that no constant of the headers     *)
(* equals is written by its numeral ("-1000").  A safe variant is written  *)
(* by its Rust name without the enum prefix ("BT709").  A compile-time     *)
(* profile is the set of cargo features that are switched on.              *)
(***************************************************************************)
EXTENDS Integers, Sequences, FiniteSets, TLC

\* The cargo features the conversions are gated on.
VersionFeatures ==
   {"ffmpeg_4_0", "ffmpeg_4_1", "ffmpeg_4_2", "ffmpeg_4_3", "ffmpeg_4_4"}

ApiFeatures == {"ff_api_xvmc", "ff_api_vdpau", "ff_api_vaapi", "rpi"}

Features == VersionFeatures \cup ApiFeatures

(***************************************************************************)
(* The arm tables.  Every table lists, in source order, one tuple          *)
(* <<pattern, result, feature, on>> per match arm (per variant for an enum *)
(* declaration, the variant standing in both places): the arm is compiled  *)
(* in when feature = "" or when (feature is switched on) = on.             *)
(***************************************************************************)

\* src/util/color/primaries.rs: the variants of enum Primaries, each with its feature gate
PrimariesVariants ==
   <<
      <<"Reserved0", "Reserved0", "", TRUE>>,
      <<"BT709", "BT709", "", TRUE>>,
      <<"Unspecified", "Unspecified", "", TRUE>>,
      <<"Reserved", "Reserved", "", TRUE>>,
      <<"BT470M", "BT470M", "", TRUE>>,
      <<"BT470BG", "BT470BG", "", TRUE>>,
      <<"SMPTE170M", "SMPTE170M", "", TRUE>>,
      <<"SMPTE240M", "SMPTE240M", "", TRUE>>,
      <<"Film", "Film", "", TRUE>>,
      <<"BT2020", "BT2020", "", TRUE>>,
      <<"SMPTE428", "SMPTE428", "", TRUE>>,
      <<"SMPTE431", "SMPTE431", "", TRUE>>,
      <<"SMPTE432", "SMPTE432", "", TRUE>>,
      <<"JEDEC_P22", "JEDEC_P22", "ffmpeg_4_3", FALSE>>,
      <<"EBU3213", "EBU3213", "ffmpeg_4_3", TRUE>>
   >>

\* src/util/color/primaries.rs: the arms of impl From<AVColorPrimaries> for Primaries, in source order
PrimariesFromArms ==
   <<
      <<"AVCOL_PRI_RESERVED0", "Reserved0", "", TRUE>>,
      <<"AVCOL_PRI_BT709", "BT709", "", TRUE>>,
      <<"AVCOL_PRI_UNSPECIFIED", "Unspecified", "", TRUE>>,
      <<"AVCOL_PRI_RESERVED", "Reserved", "", TRUE>>,
      <<"AVCOL_PRI_BT470M", "BT470M", "", TRUE>>,
      <<"AVCOL_PRI_BT470BG", "BT470BG", "", TRUE>>,
      <<"AVCOL_PRI_SMPTE170M", "SMPTE170M", "", TRUE>>,
      <<"AVCOL_PRI_SMPTE240M", "SMPTE240M", "", TRUE>>,
      <<"AVCOL_PRI_FILM", "Film", "", TRUE>>,
      <<"AVCOL_PRI_BT2020", "BT2020", "", TRUE>>,
      <<"AVCOL_PRI_NB", "Reserved0", "", TRUE>>,
      <<"AVCOL_PRI_SMPTE428", "SMPTE428", "", TRUE>>,
      <<"AVCOL_PRI_SMPTE431", "SMPTE431", "", TRUE>>,
      <<"AVCOL_PRI_SMPTE432", "SMPTE432", "", TRUE>>,
      <<"AVCOL_PRI_JEDEC_P22", "JEDEC_P22", "ffmpeg_4_3", FALSE>>,
      <<"AVCOL_PRI_EBU3213", "EBU3213", "ffmpeg_4_3", TRUE>>
   >>

\* src/util/color/primaries.rs: the arms of impl From<Primaries> for AVColorPrimaries, in source order
PrimariesToArms ==
   <<
      <<"Reserved0", "AVCOL_PRI_RESERVED0", "", TRUE>>,
      <<"BT709", "AVCOL_PRI_BT709", "", TRUE>>,
      <<"Unspecified", "AVCOL_PRI_UNSPECIFIED", "", TRUE>>,
      <<"Reserved", "AVCOL_PRI_RESERVED", "", TRUE>>,
      <<"BT470M", "AVCOL_PRI_BT470M", "", TRUE>>,
      <<"BT470BG", "AVCOL_PRI_BT470BG", "", TRUE>>,
      <<"SMPTE170M", "AVCOL_PRI_SMPTE170M", "", TRUE>>,
      <<"SMPTE240M", "AVCOL_PRI_SMPTE240M", "", TRUE>>,
      <<"Film", "AVCOL_PRI_FILM", "", TRUE>>,
      <<"BT2020", "AVCOL_PRI_BT2020", "", TRUE>>,
      <<"SMPTE428", "AVCOL_PRI_SMPTE428", "", TRUE>>,
      <<"SMPTE431", "AVCOL_PRI_SMPTE431", "", TRUE>>,
      <<"SMPTE432", "AVCOL_PRI_SMPTE432", "", TRUE>>,
      <<"JEDEC_P22", "AVCOL_PRI_JEDEC_P22", "ffmpeg_4_3", FALSE>>,
      <<"EBU3213", "AVCOL_PRI_EBU3213", "ffmpeg_4_3", TRUE>>
   >>

\* src/util/color/range.rs: the variants of enum Range, each with its feature gate
RangeVariants ==
   <<
      <<"Unspecified", "Unspecified", "", TRUE>>,
      <<"MPEG", "MPEG", "", TRUE>>,
      <<"JPEG", "JPEG", "", TRUE>>
   >>

\* src/util/color/range.rs: the arms of impl From<AVColorRange> for Range, in source order
RangeFromArms ==
   <<
      <<"AVCOL_RANGE_UNSPECIFIED", "Unspecified", "", TRUE>>,
      <<"AVCOL_RANGE_MPEG", "MPEG", "", TRUE>>,
      <<"AVCOL_RANGE_JPEG", "JPEG", "", TRUE>>,
      <<"AVCOL_RANGE_NB", "Unspecified", "", TRUE>>
   >>

\* src/util/color/range.rs: the arms of impl From<Range> for AVColorRange, in source order
RangeToArms ==
   <<
      <<"Unspecified", "AVCOL_RANGE_UNSPECIFIED", "", TRUE>>,
      <<"MPEG", "AVCOL_RANGE_MPEG", "", TRUE>>,
      <<"JPEG", "AVCOL_RANGE_JPEG", "", TRUE>>
   >>

\* src/util/color/space.rs: the variants of enum Space, each with its feature gate
SpaceVariants ==
   <<
      <<"RGB", "RGB", "", TRUE>>,
      <<"BT709", "BT709", "", TRUE>>,
      <<"Unspecified", "Unspecified", "", TRUE>>,
      <<"Reserved", "Reserved", "", TRUE>>,
      <<"FCC", "FCC", "", TRUE>>,
      <<"BT470BG", "BT470BG", "", TRUE>>,
      <<"SMPTE170M", "SMPTE170M", "", TRUE>>,
      <<"SMPTE240M", "SMPTE240M", "", TRUE>>,
      <<"YCGCO", "YCGCO", "", TRUE>>,
      <<"BT2020NCL", "BT2020NCL", "", TRUE>>,
      <<"BT2020CL", "BT2020CL", "", TRUE>>,
      <<"SMPTE2085", "SMPTE2085", "", TRUE>>,
      <<"ChromaDerivedNCL", "ChromaDerivedNCL", "", TRUE>>,
      <<"ChromaDerivedCL", "ChromaDerivedCL", "", TRUE>>,
      <<"ICTCP", "ICTCP", "", TRUE>>
   >>

\* src/util/color/space.rs: the arms of impl From<AVColorSpace> for Space, in source order
SpaceFromArms ==
   <<
      <<"AVCOL_SPC_RGB", "RGB", "", TRUE>>,
      <<"AVCOL_SPC_BT709", "BT709", "", TRUE>>,
      <<"AVCOL_SPC_UNSPECIFIED", "Unspecified", "", TRUE>>,
      <<"AVCOL_SPC_RESERVED", "Reserved", "", TRUE>>,
      <<"AVCOL_SPC_FCC", "FCC", "", TRUE>>,
      <<"AVCOL_SPC_BT470BG", "BT470BG", "", TRUE>>,
      <<"AVCOL_SPC_SMPTE170M", "SMPTE170M", "", TRUE>>,
      <<"AVCOL_SPC_SMPTE240M", "SMPTE240M", "", TRUE>>,
      <<"AVCOL_SPC_YCGCO", "YCGCO", "", TRUE>>,
      <<"AVCOL_SPC_BT2020_NCL", "BT2020NCL", "", TRUE>>,
      <<"AVCOL_SPC_BT2020_CL", "BT2020CL", "", TRUE>>,
      <<"AVCOL_SPC_SMPTE2085", "SMPTE2085", "", TRUE>>,
      <<"AVCOL_SPC_NB", "Unspecified", "", TRUE>>,
      <<"AVCOL_SPC_CHROMA_DERIVED_NCL", "ChromaDerivedNCL", "", TRUE>>,
      <<"AVCOL_SPC_CHROMA_DERIVED_CL", "ChromaDerivedCL", "", TRUE>>,
      <<"AVCOL_SPC_ICTCP", "ICTCP", "", TRUE>>
   >>

\* src/util/color/space.rs: the arms of impl From<Space> for AVColorSpace, in source order
SpaceToArms ==
   <<
      <<"RGB", "AVCOL_SPC_RGB", "", TRUE>>,
      <<"BT709", "AVCOL_SPC_BT709", "", TRUE>>,
      <<"Unspecified", "AVCOL_SPC_UNSPECIFIED", "", TRUE>>,
      <<"Reserved", "AVCOL_SPC_RESERVED", "", TRUE>>,
      <<"FCC", "AVCOL_SPC_FCC", "", TRUE>>,
      <<"BT470BG", "AVCOL_SPC_BT470BG", "", TRUE>>,
      <<"SMPTE170M", "AVCOL_SPC_SMPTE170M", "", TRUE>>,
      <<"SMPTE240M", "AVCOL_SPC_SMPTE240M", "", TRUE>>,
      <<"YCGCO", "AVCOL_SPC_YCGCO", "", TRUE>>,
      <<"BT2020NCL", "AVCOL_SPC_BT2020_NCL", "", TRUE>>,
      <<"BT2020CL", "AVCOL_SPC_BT2020_CL", "", TRUE>>,
      <<"SMPTE2085", "AVCOL_SPC_SMPTE2085", "", TRUE>>,
      <<"ChromaDerivedNCL", "AVCOL_SPC_CHROMA_DERIVED_NCL", "", TRUE>>,
      <<"ChromaDerivedCL", "AVCOL_SPC_CHROMA_DERIVED_CL", "", TRUE>>,
      <<"ICTCP", "AVCOL_SPC_ICTCP", "", TRUE>>
   >>

\* src/util/color/transfer_characteristic.rs: the variants of enum TransferCharacteristic, each with its feature gate
TransferCharacteristicVariants ==
   <<
      <<"Reserved0", "Reserved0", "", TRUE>>,
      <<"BT709", "BT709", "", TRUE>>,
      <<"Unspecified", "Unspecified", "", TRUE>>,
      <<"Reserved", "Reserved", "", TRUE>>,
      <<"GAMMA22", "GAMMA22", "", TRUE>>,
      <<"GAMMA28", "GAMMA28", "", TRUE>>,
      <<"SMPTE170M", "SMPTE170M", "", TRUE>>,
      <<"SMPTE240M", "SMPTE240M", "", TRUE>>,
      <<"Linear", "Linear", "", TRUE>>,
      <<"Log", "Log", "", TRUE>>,
      <<"LogSqrt", "LogSqrt", "", TRUE>>,
      <<"IEC61966_2_4", "IEC61966_2_4", "", TRUE>>,
      <<"BT1361_ECG", "BT1361_ECG", "", TRUE>>,
      <<"IEC61966_2_1", "IEC61966_2_1", "", TRUE>>,
      <<"BT2020_10", "BT2020_10", "", TRUE>>,
      <<"BT2020_12", "BT2020_12", "", TRUE>>,
      <<"SMPTE2084", "SMPTE2084", "", TRUE>>,
      <<"SMPTE428", "SMPTE428", "", TRUE>>,
      <<"ARIB_STD_B67", "ARIB_STD_B67", "", TRUE>>
   >>

\* src/util/color/transfer_characteristic.rs: the arms of impl From<AVColorTransferCharacteristic> for TransferCharacteristic, in source order
TransferCharacteristicFromArms ==
   <<
      <<"AVCOL_TRC_RESERVED0", "Reserved0", "", TRUE>>,
      <<"AVCOL_TRC_BT709", "BT709", "", TRUE>>,
      <<"AVCOL_TRC_UNSPECIFIED", "Unspecified", "", TRUE>>,
      <<"AVCOL_TRC_RESERVED", "Reserved", "", TRUE>>,
      <<"AVCOL_TRC_GAMMA22", "GAMMA22", "", TRUE>>,
      <<"AVCOL_TRC_GAMMA28", "GAMMA28", "", TRUE>>,
      <<"AVCOL_TRC_SMPTE170M", "SMPTE170M", "", TRUE>>,
      <<"AVCOL_TRC_SMPTE240M", "SMPTE240M", "", TRUE>>,
      <<"AVCOL_TRC_LINEAR", "Linear", "", TRUE>>,
      <<"AVCOL_TRC_LOG", "Log", "", TRUE>>,
      <<"AVCOL_TRC_LOG_SQRT", "LogSqrt", "", TRUE>>,
      <<"AVCOL_TRC_IEC61966_2_4", "IEC61966_2_4", "", TRUE>>,
      <<"AVCOL_TRC_BT1361_ECG", "BT1361_ECG", "", TRUE>>,
      <<"AVCOL_TRC_IEC61966_2_1", "IEC61966_2_1", "", TRUE>>,
      <<"AVCOL_TRC_BT2020_10", "BT2020_10", "", TRUE>>,
      <<"AVCOL_TRC_BT2020_12", "BT2020_12", "", TRUE>>,
      <<"AVCOL_TRC_NB", "Reserved0", "", TRUE>>,
      <<"AVCOL_TRC_SMPTE2084", "SMPTE2084", "", TRUE>>,
      <<"AVCOL_TRC_SMPTE428", "SMPTE428", "", TRUE>>,
      <<"AVCOL_TRC_ARIB_STD_B67", "ARIB_STD_B67", "", TRUE>>
   >>

\* src/util/color/transfer_characteristic.rs: the arms of impl From<TransferCharacteristic> for AVColorTransferCharacteristic, in source order
TransferCharacteristicToArms ==
   <<
      <<"Reserved0", "AVCOL_TRC_RESERVED0", "", TRUE>>,
      <<"BT709", "AVCOL_TRC_BT709", "", TRUE>>,
      <<"Unspecified", "AVCOL_TRC_UNSPECIFIED", "", TRUE>>,
      <<"Reserved", "AVCOL_TRC_RESERVED", "", TRUE>>,
      <<"GAMMA22", "AVCOL_TRC_GAMMA22", "", TRUE>>,
      <<"GAMMA28", "AVCOL_TRC_GAMMA28", "", TRUE>>,
      <<"SMPTE170M", "AVCOL_TRC_SMPTE170M", "", TRUE>>,
      <<"SMPTE240M", "AVCOL_TRC_SMPTE240M", "", TRUE>>,
      <<"Linear", "AVCOL_TRC_LINEAR", "", TRUE>>,
      <<"Log", "AVCOL_TRC_LOG", "", TRUE>>,
      <<"LogSqrt", "AVCOL_TRC_LOG_SQRT", "", TRUE>>,
      <<"IEC61966_2_4", "AVCOL_TRC_IEC61966_2_4", "", TRUE>>,
      <<"BT1361_ECG", "AVCOL_TRC_BT1361_ECG", "", TRUE>>,
      <<"IEC61966_2_1", "AVCOL_TRC_IEC61966_2_1", "", TRUE>>,
      <<"BT2020_10", "AVCOL_TRC_BT2020_10", "", TRUE>>,
      <<"BT2020_12", "AVCOL_TRC_BT2020_12", "", TRUE>>,
      <<"SMPTE2084", "AVCOL_TRC_SMPTE2084", "", TRUE>>,
      <<"SMPTE428", "AVCOL_TRC_SMPTE428", "", TRUE>>,
      <<"ARIB_STD_B67", "AVCOL_TRC_ARIB_STD_B67", "", TRUE>>
   >>

\* src/codec/packet/side_data.rs: the variants of enum Type, each with its feature gate
PacketTypeVariants ==
   <<
      <<"Palette", "Palette", "", TRUE>>,
      <<"NewExtraData", "NewExtraData", "", TRUE>>,
      <<"ParamChange", "ParamChange", "", TRUE>>,
      <<"H263MbInfo", "H263MbInfo", "", TRUE>>,
      <<"ReplayGain", "ReplayGain", "", TRUE>>,
      <<"DisplayMatrix", "DisplayMatrix", "", TRUE>>,
      <<"Stereo3d", "Stereo3d", "", TRUE>>,
      <<"AudioServiceType", "AudioServiceType", "", TRUE>>,
      <<"QualityStats", "QualityStats", "", TRUE>>,
      <<"FallbackTrack", "FallbackTrack", "", TRUE>>,
      <<"CBPProperties", "CBPProperties", "", TRUE>>,
      <<"SkipSamples", "SkipSamples", "", TRUE>>,
      <<"JpDualMono", "JpDualMono", "", TRUE>>,
      <<"StringsMetadata", "StringsMetadata", "", TRUE>>,
      <<"SubtitlePosition", "SubtitlePosition", "", TRUE>>,
      <<"MatroskaBlockAdditional", "MatroskaBlockAdditional", "", TRUE>>,
      <<"WebVTTIdentifier", "WebVTTIdentifier", "", TRUE>>,
      <<"WebVTTSettings", "WebVTTSettings", "", TRUE>>,
      <<"MetadataUpdate", "MetadataUpdate", "", TRUE>>,
      <<"MPEGTSStreamID", "MPEGTSStreamID", "", TRUE>>,
      <<"MasteringDisplayMetadata", "MasteringDisplayMetadata", "", TRUE>>,
      <<"DataSpherical", "DataSpherical", "", TRUE>>,
      <<"DataNb", "DataNb", "", TRUE>>,
      <<"ContentLightLevel", "ContentLightLevel", "", TRUE>>,
      <<"A53CC", "A53CC", "", TRUE>>,
      <<"EncryptionInitInfo", "EncryptionInitInfo", "ffmpeg_4_0", TRUE>>,
      <<"EncryptionInfo", "EncryptionInfo", "ffmpeg_4_0", TRUE>>,
      <<"AFD", "AFD", "ffmpeg_4_1", TRUE>>,
      <<"PRFT", "PRFT", "ffmpeg_4_3", TRUE>>,
      <<"ICC_PROFILE", "ICC_PROFILE", "ffmpeg_4_3", TRUE>>,
      <<"DOVI_CONF", "DOVI_CONF", "ffmpeg_4_3", TRUE>>,
      <<"S12M_TIMECODE", "S12M_TIMECODE", "ffmpeg_4_4", TRUE>>
   >>

\* src/codec/packet/side_data.rs: the arms of impl From<AVPacketSideDataType> for Type, in source order
PacketTypeFromArms ==
   <<
      <<"AV_PKT_DATA_PALETTE", "Palette", "", TRUE>>,
      <<"AV_PKT_DATA_NEW_EXTRADATA", "NewExtraData", "", TRUE>>,
      <<"AV_PKT_DATA_PARAM_CHANGE", "ParamChange", "", TRUE>>,
      <<"AV_PKT_DATA_H263_MB_INFO", "H263MbInfo", "", TRUE>>,
      <<"AV_PKT_DATA_REPLAYGAIN", "ReplayGain", "", TRUE>>,
      <<"AV_PKT_DATA_DISPLAYMATRIX", "DisplayMatrix", "", TRUE>>,
      <<"AV_PKT_DATA_STEREO3D", "Stereo3d", "", TRUE>>,
      <<"AV_PKT_DATA_AUDIO_SERVICE_TYPE", "AudioServiceType", "", TRUE>>,
      <<"AV_PKT_DATA_QUALITY_STATS", "QualityStats", "", TRUE>>,
      <<"AV_PKT_DATA_FALLBACK_TRACK", "FallbackTrack", "", TRUE>>,
      <<"AV_PKT_DATA_CPB_PROPERTIES", "CBPProperties", "", TRUE>>,
      <<"AV_PKT_DATA_SKIP_SAMPLES", "SkipSamples", "", TRUE>>,
      <<"AV_PKT_DATA_JP_DUALMONO", "JpDualMono", "", TRUE>>,
      <<"AV_PKT_DATA_STRINGS_METADATA", "StringsMetadata", "", TRUE>>,
      <<"AV_PKT_DATA_SUBTITLE_POSITION", "SubtitlePosition", "", TRUE>>,
      <<"AV_PKT_DATA_MATROSKA_BLOCKADDITIONAL", "MatroskaBlockAdditional", "", TRUE>>,
      <<"AV_PKT_DATA_WEBVTT_IDENTIFIER", "WebVTTIdentifier", "", TRUE>>,
      <<"AV_PKT_DATA_WEBVTT_SETTINGS", "WebVTTSettings", "", TRUE>>,
      <<"AV_PKT_DATA_METADATA_UPDATE", "MetadataUpdate", "", TRUE>>,
      <<"AV_PKT_DATA_MPEGTS_STREAM_ID", "MPEGTSStreamID", "", TRUE>>,
      <<"AV_PKT_DATA_MASTERING_DISPLAY_METADATA", "MasteringDisplayMetadata", "", TRUE>>,
      <<"AV_PKT_DATA_SPHERICAL", "DataSpherical", "", TRUE>>,
      <<"AV_PKT_DATA_NB", "DataNb", "", TRUE>>,
      <<"AV_PKT_DATA_CONTENT_LIGHT_LEVEL", "ContentLightLevel", "", TRUE>>,
      <<"AV_PKT_DATA_A53_CC", "A53CC", "", TRUE>>,
      <<"AV_PKT_DATA_ENCRYPTION_INIT_INFO", "EncryptionInitInfo", "ffmpeg_4_0", TRUE>>,
      <<"AV_PKT_DATA_ENCRYPTION_INFO", "EncryptionInfo", "ffmpeg_4_0", TRUE>>,
      <<"AV_PKT_DATA_AFD", "AFD", "ffmpeg_4_1", TRUE>>,
      <<"AV_PKT_DATA_PRFT", "PRFT", "ffmpeg_4_3", TRUE>>,
      <<"AV_PKT_DATA_ICC_PROFILE", "ICC_PROFILE", "ffmpeg_4_3", TRUE>>,
      <<"AV_PKT_DATA_DOVI_CONF", "DOVI_CONF", "ffmpeg_4_3", TRUE>>,
      <<"AV_PKT_DATA_S12M_TIMECODE", "S12M_TIMECODE", "ffmpeg_4_4", TRUE>>
   >>

\* src/codec/packet/side_data.rs: the arms of impl From<Type> for AVPacketSideDataType, in source order
PacketTypeToArms ==
   <<
      <<"Palette", "AV_PKT_DATA_PALETTE", "", TRUE>>,
      <<"NewExtraData", "AV_PKT_DATA_NEW_EXTRADATA", "", TRUE>>,
      <<"ParamChange", "AV_PKT_DATA_PARAM_CHANGE", "", TRUE>>,
      <<"H263MbInfo", "AV_PKT_DATA_H263_MB_INFO", "", TRUE>>,
      <<"ReplayGain", "AV_PKT_DATA_REPLAYGAIN", "", TRUE>>,
      <<"DisplayMatrix", "AV_PKT_DATA_DISPLAYMATRIX", "", TRUE>>,
      <<"Stereo3d", "AV_PKT_DATA_STEREO3D", "", TRUE>>,
      <<"AudioServiceType", "AV_PKT_DATA_AUDIO_SERVICE_TYPE", "", TRUE>>,
      <<"QualityStats", "AV_PKT_DATA_QUALITY_STATS", "", TRUE>>,
      <<"FallbackTrack", "AV_PKT_DATA_FALLBACK_TRACK", "", TRUE>>,
      <<"CBPProperties", "AV_PKT_DATA_CPB_PROPERTIES", "", TRUE>>,
      <<"SkipSamples", "AV_PKT_DATA_SKIP_SAMPLES", "", TRUE>>,
      <<"JpDualMono", "AV_PKT_DATA_JP_DUALMONO", "", TRUE>>,
      <<"StringsMetadata", "AV_PKT_DATA_STRINGS_METADATA", "", TRUE>>,
      <<"SubtitlePosition", "AV_PKT_DATA_SUBTITLE_POSITION", "", TRUE>>,
      <<"MatroskaBlockAdditional", "AV_PKT_DATA_MATROSKA_BLOCKADDITIONAL", "", TRUE>>,
      <<"WebVTTIdentifier", "AV_PKT_DATA_WEBVTT_IDENTIFIER", "", TRUE>>,
      <<"WebVTTSettings", "AV_PKT_DATA_WEBVTT_SETTINGS", "", TRUE>>,
      <<"MetadataUpdate", "AV_PKT_DATA_METADATA_UPDATE", "", TRUE>>,
      <<"MPEGTSStreamID", "AV_PKT_DATA_MPEGTS_STREAM_ID", "", TRUE>>,
      <<"MasteringDisplayMetadata", "AV_PKT_DATA_MASTERING_DISPLAY_METADATA", "", TRUE>>,
      <<"DataSpherical", "AV_PKT_DATA_SPHERICAL", "", TRUE>>,
      <<"DataNb", "AV_PKT_DATA_NB", "", TRUE>>,
      <<"ContentLightLevel", "AV_PKT_DATA_CONTENT_LIGHT_LEVEL", "", TRUE>>,
      <<"A53CC", "AV_PKT_DATA_A53_CC", "", TRUE>>,
      <<"EncryptionInitInfo", "AV_PKT_DATA_ENCRYPTION_INIT_INFO", "ffmpeg_4_0", TRUE>>,
      <<"EncryptionInfo", "AV_PKT_DATA_ENCRYPTION_INFO", "ffmpeg_4_0", TRUE>>,
      <<"AFD", "AV_PKT_DATA_AFD", "ffmpeg_4_1", TRUE>>,
      <<"PRFT", "AV_PKT_DATA_PRFT", "ffmpeg_4_3", TRUE>>,
      <<"ICC_PROFILE", "AV_PKT_DATA_ICC_PROFILE", "ffmpeg_4_3", TRUE>>,
      <<"DOVI_CONF", "AV_PKT_DATA_DOVI_CONF", "ffmpeg_4_3", TRUE>>,
      <<"S12M_TIMECODE", "AV_PKT_DATA_S12M_TIMECODE", "ffmpeg_4_4", TRUE>>
   >>

\* src/util/frame/side_data.rs: the variants of enum Type, each with its feature gate
FrameTypeVariants ==
   <<
      <<"PanScan", "PanScan", "", TRUE>>,
      <<"A53CC", "A53CC", "", TRUE>>,
      <<"Stereo3D", "Stereo3D", "", TRUE>>,
      <<"MatrixEncoding", "MatrixEncoding", "", TRUE>>,
      <<"DownMixInfo", "DownMixInfo", "", TRUE>>,
      <<"ReplayGain", "ReplayGain", "", TRUE>>,
      <<"DisplayMatrix", "DisplayMatrix", "", TRUE>>,
      <<"AFD", "AFD", "", TRUE>>,
      <<"MotionVectors", "MotionVectors", "", TRUE>>,
      <<"SkipSamples", "SkipSamples", "", TRUE>>,
      <<"AudioServiceType", "AudioServiceType", "", TRUE>>,
      <<"MasteringDisplayMetadata", "MasteringDisplayMetadata", "", TRUE>>,
      <<"GOPTimecode", "GOPTimecode", "", TRUE>>,
      <<"Spherical", "Spherical", "", TRUE>>,
      <<"ContentLightLevel", "ContentLightLevel", "", TRUE>>,
      <<"IccProfile", "IccProfile", "", TRUE>>,
      <<"QPTableProperties", "QPTableProperties", "ffmpeg_4_0", TRUE>>,
      <<"QPTableData", "QPTableData", "ffmpeg_4_0", TRUE>>,
      <<"S12M_TIMECODE", "S12M_TIMECODE", "ffmpeg_4_1", TRUE>>,
      <<"DYNAMIC_HDR_PLUS", "DYNAMIC_HDR_PLUS", "ffmpeg_4_2", TRUE>>,
      <<"REGIONS_OF_INTEREST", "REGIONS_OF_INTEREST", "ffmpeg_4_2", TRUE>>,
      <<"VIDEO_ENC_PARAMS", "VIDEO_ENC_PARAMS", "ffmpeg_4_3", TRUE>>,
      <<"SEI_UNREGISTERED", "SEI_UNREGISTERED", "ffmpeg_4_4", TRUE>>,
      <<"FILM_GRAIN_PARAMS", "FILM_GRAIN_PARAMS", "ffmpeg_4_4", TRUE>>
   >>

\* src/util/frame/side_data.rs: the arms of impl From<AVFrameSideDataType> for Type, in source order
FrameTypeFromArms ==
   <<
      <<"AV_FRAME_DATA_PANSCAN", "PanScan", "", TRUE>>,
      <<"AV_FRAME_DATA_A53_CC", "A53CC", "", TRUE>>,
      <<"AV_FRAME_DATA_STEREO3D", "Stereo3D", "", TRUE>>,
      <<"AV_FRAME_DATA_MATRIXENCODING", "MatrixEncoding", "", TRUE>>,
      <<"AV_FRAME_DATA_DOWNMIX_INFO", "DownMixInfo", "", TRUE>>,
      <<"AV_FRAME_DATA_REPLAYGAIN", "ReplayGain", "", TRUE>>,
      <<"AV_FRAME_DATA_DISPLAYMATRIX", "DisplayMatrix", "", TRUE>>,
      <<"AV_FRAME_DATA_AFD", "AFD", "", TRUE>>,
      <<"AV_FRAME_DATA_MOTION_VECTORS", "MotionVectors", "", TRUE>>,
      <<"AV_FRAME_DATA_SKIP_SAMPLES", "SkipSamples", "", TRUE>>,
      <<"AV_FRAME_DATA_AUDIO_SERVICE_TYPE", "AudioServiceType", "", TRUE>>,
      <<"AV_FRAME_DATA_MASTERING_DISPLAY_METADATA", "MasteringDisplayMetadata", "", TRUE>>,
      <<"AV_FRAME_DATA_GOP_TIMECODE", "GOPTimecode", "", TRUE>>,
      <<"AV_FRAME_DATA_SPHERICAL", "Spherical", "", TRUE>>,
      <<"AV_FRAME_DATA_CONTENT_LIGHT_LEVEL", "ContentLightLevel", "", TRUE>>,
      <<"AV_FRAME_DATA_ICC_PROFILE", "IccProfile", "", TRUE>>,
      <<"AV_FRAME_DATA_QP_TABLE_PROPERTIES", "QPTableProperties", "ffmpeg_4_0", TRUE>>,
      <<"AV_FRAME_DATA_QP_TABLE_DATA", "QPTableData", "ffmpeg_4_0", TRUE>>,
      <<"AV_FRAME_DATA_S12M_TIMECODE", "S12M_TIMECODE", "ffmpeg_4_1", TRUE>>,
      <<"AV_FRAME_DATA_DYNAMIC_HDR_PLUS", "DYNAMIC_HDR_PLUS", "ffmpeg_4_2", TRUE>>,
      <<"AV_FRAME_DATA_REGIONS_OF_INTEREST", "REGIONS_OF_INTEREST", "ffmpeg_4_2", TRUE>>,
      <<"AV_FRAME_DATA_VIDEO_ENC_PARAMS", "VIDEO_ENC_PARAMS", "ffmpeg_4_3", TRUE>>,
      <<"AV_FRAME_DATA_SEI_UNREGISTERED", "SEI_UNREGISTERED", "ffmpeg_4_4", TRUE>>,
      <<"AV_FRAME_DATA_FILM_GRAIN_PARAMS", "FILM_GRAIN_PARAMS", "ffmpeg_4_4", TRUE>>
   >>

\* src/util/frame/side_data.rs: the arms of impl From<Type> for AVFrameSideDataType, in source order
FrameTypeToArms ==
   <<
      <<"PanScan", "AV_FRAME_DATA_PANSCAN", "", TRUE>>,
      <<"A53CC", "AV_FRAME_DATA_A53_CC", "", TRUE>>,
      <<"Stereo3D", "AV_FRAME_DATA_STEREO3D", "", TRUE>>,
      <<"MatrixEncoding", "AV_FRAME_DATA_MATRIXENCODING", "", TRUE>>,
      <<"DownMixInfo", "AV_FRAME_DATA_DOWNMIX_INFO", "", TRUE>>,
      <<"ReplayGain", "AV_FRAME_DATA_REPLAYGAIN", "", TRUE>>,
      <<"DisplayMatrix", "AV_FRAME_DATA_DISPLAYMATRIX", "", TRUE>>,
      <<"AFD", "AV_FRAME_DATA_AFD", "", TRUE>>,
      <<"MotionVectors", "AV_FRAME_DATA_MOTION_VECTORS", "", TRUE>>,
      <<"SkipSamples", "AV_FRAME_DATA_SKIP_SAMPLES", "", TRUE>>,
      <<"AudioServiceType", "AV_FRAME_DATA_AUDIO_SERVICE_TYPE", "", TRUE>>,
      <<"MasteringDisplayMetadata", "AV_FRAME_DATA_MASTERING_DISPLAY_METADATA", "", TRUE>>,
      <<"GOPTimecode", "AV_FRAME_DATA_GOP_TIMECODE", "", TRUE>>,
      <<"Spherical", "AV_FRAME_DATA_SPHERICAL", "", TRUE>>,
      <<"ContentLightLevel", "AV_FRAME_DATA_CONTENT_LIGHT_LEVEL", "", TRUE>>,
      <<"IccProfile", "AV_FRAME_DATA_ICC_PROFILE", "", TRUE>>,
      <<"QPTableProperties", "AV_FRAME_DATA_QP_TABLE_PROPERTIES", "ffmpeg_4_0", TRUE>>,
      <<"QPTableData", "AV_FRAME_DATA_QP_TABLE_DATA", "ffmpeg_4_0", TRUE>>,
      <<"S12M_TIMECODE", "AV_FRAME_DATA_S12M_TIMECODE", "ffmpeg_4_1", TRUE>>,
      <<"DYNAMIC_HDR_PLUS", "AV_FRAME_DATA_DYNAMIC_HDR_PLUS", "ffmpeg_4_2", TRUE>>,
      <<"REGIONS_OF_INTEREST", "AV_FRAME_DATA_REGIONS_OF_INTEREST", "ffmpeg_4_2", TRUE>>,
      <<"VIDEO_ENC_PARAMS", "AV_FRAME_DATA_VIDEO_ENC_PARAMS", "ffmpeg_4_3", TRUE>>,
      <<"SEI_UNREGISTERED", "AV_FRAME_DATA_SEI_UNREGISTERED", "ffmpeg_4_4", TRUE>>,
      <<"FILM_GRAIN_PARAMS", "AV_FRAME_DATA_FILM_GRAIN_PARAMS", "ffmpeg_4_4", TRUE>>
   >>

\* src/util/mathematics/rounding.rs: the variants of enum Rounding, each with its feature gate
RoundingVariants ==
   <<
      <<"Zero", "Zero", "", TRUE>>,
      <<"Infinity", "Infinity", "", TRUE>>,
      <<"Down", "Down", "", TRUE>>,
      <<"Up", "Up", "", TRUE>>,
      <<"NearInfinity", "NearInfinity", "", TRUE>>,
      <<"PassMinMax", "PassMinMax", "", TRUE>>
   >>

\* src/util/mathematics/rounding.rs: the arms of impl From<AVRounding> for Rounding, in source order
RoundingFromArms ==
   <<
      <<"AV_ROUND_ZERO", "Zero", "", TRUE>>,
      <<"AV_ROUND_INF", "Infinity", "", TRUE>>,
      <<"AV_ROUND_DOWN", "Down", "", TRUE>>,
      <<"AV_ROUND_UP", "Up", "", TRUE>>,
      <<"AV_ROUND_NEAR_INF", "NearInfinity", "", TRUE>>,
      <<"AV_ROUND_PASS_MINMAX", "PassMinMax", "", TRUE>>
   >>

\* src/util/mathematics/rounding.rs: the arms of impl From<Rounding> for AVRounding, in source order
RoundingToArms ==
   <<
      <<"Zero", "AV_ROUND_ZERO", "", TRUE>>,
      <<"Infinity", "AV_ROUND_INF", "", TRUE>>,
      <<"Down", "AV_ROUND_DOWN", "", TRUE>>,
      <<"Up", "AV_ROUND_UP", "", TRUE>>,
      <<"NearInfinity", "AV_ROUND_NEAR_INF", "", TRUE>>,
      <<"PassMinMax", "AV_ROUND_PASS_MINMAX", "", TRUE>>
   >>

\* src/util/option/mod.rs: the variants of enum Type, each with its feature gate
OptionTypeVariants ==
   <<
      <<"Flags", "Flags", "", TRUE>>,
      <<"Int", "Int", "", TRUE>>,
      <<"Int64", "Int64", "", TRUE>>,
      <<"Double", "Double", "", TRUE>>,
      <<"Float", "Float", "", TRUE>>,
      <<"String", "String", "", TRUE>>,
      <<"Rational", "Rational", "", TRUE>>,
      <<"Binary", "Binary", "", TRUE>>,
      <<"Dictionary", "Dictionary", "", TRUE>>,
      <<"Constant", "Constant", "", TRUE>>,
      <<"ImageSize", "ImageSize", "", TRUE>>,
      <<"PixelFormat", "PixelFormat", "", TRUE>>,
      <<"SampleFormat", "SampleFormat", "", TRUE>>,
      <<"VideoRate", "VideoRate", "", TRUE>>,
      <<"Duration", "Duration", "", TRUE>>,
      <<"Color", "Color", "", TRUE>>,
      <<"ChannelLayout", "ChannelLayout", "", TRUE>>,
      <<"c_ulong", "c_ulong", "", TRUE>>,
      <<"bool", "bool", "", TRUE>>
   >>

\* src/util/option/mod.rs: the arms of impl From<AVOptionType> for Type, in source order
OptionTypeFromArms ==
   <<
      <<"AV_OPT_TYPE_FLAGS", "Flags", "", TRUE>>,
      <<"AV_OPT_TYPE_INT", "Int", "", TRUE>>,
      <<"AV_OPT_TYPE_INT64", "Int64", "", TRUE>>,
      <<"AV_OPT_TYPE_DOUBLE", "Double", "", TRUE>>,
      <<"AV_OPT_TYPE_FLOAT", "Float", "", TRUE>>,
      <<"AV_OPT_TYPE_STRING", "String", "", TRUE>>,
      <<"AV_OPT_TYPE_RATIONAL", "Rational", "", TRUE>>,
      <<"AV_OPT_TYPE_BINARY", "Binary", "", TRUE>>,
      <<"AV_OPT_TYPE_DICT", "Dictionary", "", TRUE>>,
      <<"AV_OPT_TYPE_CONST", "Constant", "", TRUE>>,
      <<"AV_OPT_TYPE_UINT64", "c_ulong", "", TRUE>>,
      <<"AV_OPT_TYPE_BOOL", "bool", "", TRUE>>,
      <<"AV_OPT_TYPE_IMAGE_SIZE", "ImageSize", "", TRUE>>,
      <<"AV_OPT_TYPE_PIXEL_FMT", "PixelFormat", "", TRUE>>,
      <<"AV_OPT_TYPE_SAMPLE_FMT", "SampleFormat", "", TRUE>>,
      <<"AV_OPT_TYPE_VIDEO_RATE", "VideoRate", "", TRUE>>,
      <<"AV_OPT_TYPE_DURATION", "Duration", "", TRUE>>,
      <<"AV_OPT_TYPE_COLOR", "Color", "", TRUE>>,
      <<"AV_OPT_TYPE_CHANNEL_LAYOUT", "ChannelLayout", "", TRUE>>
   >>

\* src/util/option/mod.rs: the arms of impl From<Type> for AVOptionType, in source order
OptionTypeToArms ==
   <<
      <<"Flags", "AV_OPT_TYPE_FLAGS", "", TRUE>>,
      <<"Int", "AV_OPT_TYPE_INT", "", TRUE>>,
      <<"Int64", "AV_OPT_TYPE_INT64", "", TRUE>>,
      <<"Double", "AV_OPT_TYPE_DOUBLE", "", TRUE>>,
      <<"Float", "AV_OPT_TYPE_FLOAT", "", TRUE>>,
      <<"String", "AV_OPT_TYPE_STRING", "", TRUE>>,
      <<"Rational", "AV_OPT_TYPE_RATIONAL", "", TRUE>>,
      <<"Binary", "AV_OPT_TYPE_BINARY", "", TRUE>>,
      <<"Dictionary", "AV_OPT_TYPE_DICT", "", TRUE>>,
      <<"Constant", "AV_OPT_TYPE_CONST", "", TRUE>>,
      <<"c_ulong", "AV_OPT_TYPE_UINT64", "", TRUE>>,
      <<"bool", "AV_OPT_TYPE_BOOL", "", TRUE>>,
      <<"ImageSize", "AV_OPT_TYPE_IMAGE_SIZE", "", TRUE>>,
      <<"PixelFormat", "AV_OPT_TYPE_PIXEL_FMT", "", TRUE>>,
      <<"SampleFormat", "AV_OPT_TYPE_SAMPLE_FMT", "", TRUE>>,
      <<"VideoRate", "AV_OPT_TYPE_VIDEO_RATE", "", TRUE>>,
      <<"Duration", "AV_OPT_TYPE_DURATION", "", TRUE>>,
      <<"Color", "AV_OPT_TYPE_COLOR", "", TRUE>>,
      <<"ChannelLayout", "AV_OPT_TYPE_CHANNEL_LAYOUT", "", TRUE>>
   >>

\* src/util/format/pixel.rs: the variants of enum Pixel, each with its feature gate
PixelVariants ==
   <<
      <<"None", "None", "", TRUE>>,
      <<"YUV420P", "YUV420P", "", TRUE>>,
      <<"YUYV422", "YUYV422", "", TRUE>>,
      <<"RGB24", "RGB24", "", TRUE>>,
      <<"BGR24", "BGR24", "", TRUE>>,
      <<"YUV422P", "YUV422P", "", TRUE>>,
      <<"YUV444P", "YUV444P", "", TRUE>>,
      <<"YUV410P", "YUV410P", "", TRUE>>,
      <<"YUV411P", "YUV411P", "", TRUE>>,
      <<"GRAY8", "GRAY8", "", TRUE>>,
      <<"MonoWhite", "MonoWhite", "", TRUE>>,
      <<"MonoBlack", "MonoBlack", "", TRUE>>,
      <<"PAL8", "PAL8", "", TRUE>>,
      <<"YUVJ420P", "YUVJ420P", "", TRUE>>,
      <<"YUVJ422P", "YUVJ422P", "", TRUE>>,
      <<"YUVJ444P", "YUVJ444P", "", TRUE>>,
      <<"XVMC_MPEG2_MC", "XVMC_MPEG2_MC", "ff_api_xvmc", TRUE>>,
      <<"XVMC_MPEG2_IDCT", "XVMC_MPEG2_IDCT", "ff_api_xvmc", TRUE>>,
      <<"UYVY422", "UYVY422", "", TRUE>>,
      <<"UYYVYY411", "UYYVYY411", "", TRUE>>,
      <<"BGR8", "BGR8", "", TRUE>>,
      <<"BGR4", "BGR4", "", TRUE>>,
      <<"BGR4_BYTE", "BGR4_BYTE", "", TRUE>>,
      <<"RGB8", "RGB8", "", TRUE>>,
      <<"RGB4", "RGB4", "", TRUE>>,
      <<"RGB4_BYTE", "RGB4_BYTE", "", TRUE>>,
      <<"NV12", "NV12", "", TRUE>>,
      <<"NV21", "NV21", "", TRUE>>,
      <<"ARGB", "ARGB", "", TRUE>>,
      <<"RGBA", "RGBA", "", TRUE>>,
      <<"ABGR", "ABGR", "", TRUE>>,
      <<"BGRA", "BGRA", "", TRUE>>,
      <<"GRAY16BE", "GRAY16BE", "", TRUE>>,
      <<"GRAY16LE", "GRAY16LE", "", TRUE>>,
      <<"YUV440P", "YUV440P", "", TRUE>>,
      <<"YUVJ440P", "YUVJ440P", "", TRUE>>,
      <<"YUVA420P", "YUVA420P", "", TRUE>>,
      <<"VDPAU_H264", "VDPAU_H264", "ff_api_vdpau", TRUE>>,
      <<"VDPAU_MPEG1", "VDPAU_MPEG1", "ff_api_vdpau", TRUE>>,
      <<"VDPAU_MPEG2", "VDPAU_MPEG2", "ff_api_vdpau", TRUE>>,
      <<"VDPAU_WMV3", "VDPAU_WMV3", "ff_api_vdpau", TRUE>>,
      <<"VDPAU_VC1", "VDPAU_VC1", "ff_api_vdpau", TRUE>>,
      <<"RGB48BE", "RGB48BE", "", TRUE>>,
      <<"RGB48LE", "RGB48LE", "", TRUE>>,
      <<"RGB565BE", "RGB565BE", "", TRUE>>,
      <<"RGB565LE", "RGB565LE", "", TRUE>>,
      <<"RGB555BE", "RGB555BE", "", TRUE>>,
      <<"RGB555LE", "RGB555LE", "", TRUE>>,
      <<"BGR565BE", "BGR565BE", "", TRUE>>,
      <<"BGR565LE", "BGR565LE", "", TRUE>>,
      <<"BGR555BE", "BGR555BE", "", TRUE>>,
      <<"BGR555LE", "BGR555LE", "", TRUE>>,
      <<"VAAPI_MOCO", "VAAPI_MOCO", "ff_api_vaapi", TRUE>>,
      <<"VAAPI_IDCT", "VAAPI_IDCT", "ff_api_vaapi", TRUE>>,
      <<"VAAPI_VLD", "VAAPI_VLD", "ff_api_vaapi", TRUE>>,
      <<"VAAPI", "VAAPI", "ff_api_vaapi", FALSE>>,
      <<"YUV420P16LE", "YUV420P16LE", "", TRUE>>,
      <<"YUV420P16BE", "YUV420P16BE", "", TRUE>>,
      <<"YUV422P16LE", "YUV422P16LE", "", TRUE>>,
      <<"YUV422P16BE", "YUV422P16BE", "", TRUE>>,
      <<"YUV444P16LE", "YUV444P16LE", "", TRUE>>,
      <<"YUV444P16BE", "YUV444P16BE", "", TRUE>>,
      <<"VDPAU_MPEG4", "VDPAU_MPEG4", "ff_api_vdpau", TRUE>>,
      <<"DXVA2_VLD", "DXVA2_VLD", "", TRUE>>,
      <<"RGB444LE", "RGB444LE", "", TRUE>>,
      <<"RGB444BE", "RGB444BE", "", TRUE>>,
      <<"BGR444LE", "BGR444LE", "", TRUE>>,
      <<"BGR444BE", "BGR444BE", "", TRUE>>,
      <<"YA8", "YA8", "", TRUE>>,
      <<"BGR48BE", "BGR48BE", "", TRUE>>,
      <<"BGR48LE", "BGR48LE", "", TRUE>>,
      <<"YUV420P9BE", "YUV420P9BE", "", TRUE>>,
      <<"YUV420P9LE", "YUV420P9LE", "", TRUE>>,
      <<"YUV420P10BE", "YUV420P10BE", "", TRUE>>,
      <<"YUV420P10LE", "YUV420P10LE", "", TRUE>>,
      <<"YUV422P10BE", "YUV422P10BE", "", TRUE>>,
      <<"YUV422P10LE", "YUV422P10LE", "", TRUE>>,
      <<"YUV444P9BE", "YUV444P9BE", "", TRUE>>,
      <<"YUV444P9LE", "YUV444P9LE", "", TRUE>>,
      <<"YUV444P10BE", "YUV444P10BE", "", TRUE>>,
      <<"YUV444P10LE", "YUV444P10LE", "", TRUE>>,
      <<"YUV422P9BE", "YUV422P9BE", "", TRUE>>,
      <<"YUV422P9LE", "YUV422P9LE", "", TRUE>>,
      <<"VDA_VLD", "VDA_VLD", "ffmpeg_4_0", FALSE>>,
      <<"GBRP", "GBRP", "", TRUE>>,
      <<"GBRP9BE", "GBRP9BE", "", TRUE>>,
      <<"GBRP9LE", "GBRP9LE", "", TRUE>>,
      <<"GBRP10BE", "GBRP10BE", "", TRUE>>,
      <<"GBRP10LE", "GBRP10LE", "", TRUE>>,
      <<"GBRP16BE", "GBRP16BE", "", TRUE>>,
      <<"GBRP16LE", "GBRP16LE", "", TRUE>>,
      <<"YUVA420P9BE", "YUVA420P9BE", "", TRUE>>,
      <<"YUVA420P9LE", "YUVA420P9LE", "", TRUE>>,
      <<"YUVA422P9BE", "YUVA422P9BE", "", TRUE>>,
      <<"YUVA422P9LE", "YUVA422P9LE", "", TRUE>>,
      <<"YUVA444P9BE", "YUVA444P9BE", "", TRUE>>,
      <<"YUVA444P9LE", "YUVA444P9LE", "", TRUE>>,
      <<"YUVA420P10BE", "YUVA420P10BE", "", TRUE>>,
      <<"YUVA420P10LE", "YUVA420P10LE", "", TRUE>>,
      <<"YUVA422P10BE", "YUVA422P10BE", "", TRUE>>,
      <<"YUVA422P10LE", "YUVA422P10LE", "", TRUE>>,
      <<"YUVA444P10BE", "YUVA444P10BE", "", TRUE>>,
      <<"YUVA444P10LE", "YUVA444P10LE", "", TRUE>>,
      <<"YUVA420P16BE", "YUVA420P16BE", "", TRUE>>,
      <<"YUVA420P16LE", "YUVA420P16LE", "", TRUE>>,
      <<"YUVA422P16BE", "YUVA422P16BE", "", TRUE>>,
      <<"YUVA422P16LE", "YUVA422P16LE", "", TRUE>>,
      <<"YUVA444P16BE", "YUVA444P16BE", "", TRUE>>,
      <<"YUVA444P16LE", "YUVA444P16LE", "", TRUE>>,
      <<"VDPAU", "VDPAU", "", TRUE>>,
      <<"XYZ12LE", "XYZ12LE", "", TRUE>>,
      <<"XYZ12BE", "XYZ12BE", "", TRUE>>,
      <<"NV16", "NV16", "", TRUE>>,
      <<"NV20LE", "NV20LE", "", TRUE>>,
      <<"NV20BE", "NV20BE", "", TRUE>>,
      <<"RGBA64BE", "RGBA64BE", "", TRUE>>,
      <<"RGBA64LE", "RGBA64LE", "", TRUE>>,
      <<"BGRA64BE", "BGRA64BE", "", TRUE>>,
      <<"BGRA64LE", "BGRA64LE", "", TRUE>>,
      <<"YVYU422", "YVYU422", "", TRUE>>,
      <<"VDA", "VDA", "ffmpeg_4_0", FALSE>>,
      <<"YA16BE", "YA16BE", "", TRUE>>,
      <<"YA16LE", "YA16LE", "", TRUE>>,
      <<"QSV", "QSV", "", TRUE>>,
      <<"MMAL", "MMAL", "", TRUE>>,
      <<"D3D11VA_VLD", "D3D11VA_VLD", "", TRUE>>,
      <<"CUDA", "CUDA", "", TRUE>>,
      <<"ZRGB", "ZRGB", "", TRUE>>,
      <<"RGBZ", "RGBZ", "", TRUE>>,
      <<"ZBGR", "ZBGR", "", TRUE>>,
      <<"BGRZ", "BGRZ", "", TRUE>>,
      <<"YUVA444P", "YUVA444P", "", TRUE>>,
      <<"YUVA422P", "YUVA422P", "", TRUE>>,
      <<"YUV420P12BE", "YUV420P12BE", "", TRUE>>,
      <<"YUV420P12LE", "YUV420P12LE", "", TRUE>>,
      <<"YUV420P14BE", "YUV420P14BE", "", TRUE>>,
      <<"YUV420P14LE", "YUV420P14LE", "", TRUE>>,
      <<"YUV422P12BE", "YUV422P12BE", "", TRUE>>,
      <<"YUV422P12LE", "YUV422P12LE", "", TRUE>>,
      <<"YUV422P14BE", "YUV422P14BE", "", TRUE>>,
      <<"YUV422P14LE", "YUV422P14LE", "", TRUE>>,
      <<"YUV444P12BE", "YUV444P12BE", "", TRUE>>,
      <<"YUV444P12LE", "YUV444P12LE", "", TRUE>>,
      <<"YUV444P14BE", "YUV444P14BE", "", TRUE>>,
      <<"YUV444P14LE", "YUV444P14LE", "", TRUE>>,
      <<"GBRP12BE", "GBRP12BE", "", TRUE>>,
      <<"GBRP12LE", "GBRP12LE", "", TRUE>>,
      <<"GBRP14BE", "GBRP14BE", "", TRUE>>,
      <<"GBRP14LE", "GBRP14LE", "", TRUE>>,
      <<"GBRAP", "GBRAP", "", TRUE>>,
      <<"GBRAP16BE", "GBRAP16BE", "", TRUE>>,
      <<"GBRAP16LE", "GBRAP16LE", "", TRUE>>,
      <<"YUVJ411P", "YUVJ411P", "", TRUE>>,
      <<"BAYER_BGGR8", "BAYER_BGGR8", "", TRUE>>,
      <<"BAYER_RGGB8", "BAYER_RGGB8", "", TRUE>>,
      <<"BAYER_GBRG8", "BAYER_GBRG8", "", TRUE>>,
      <<"BAYER_GRBG8", "BAYER_GRBG8", "", TRUE>>,
      <<"BAYER_BGGR16LE", "BAYER_BGGR16LE", "", TRUE>>,
      <<"BAYER_BGGR16BE", "BAYER_BGGR16BE", "", TRUE>>,
      <<"BAYER_RGGB16LE", "BAYER_RGGB16LE", "", TRUE>>,
      <<"BAYER_RGGB16BE", "BAYER_RGGB16BE", "", TRUE>>,
      <<"BAYER_GBRG16LE", "BAYER_GBRG16LE", "", TRUE>>,
      <<"BAYER_GBRG16BE", "BAYER_GBRG16BE", "", TRUE>>,
      <<"BAYER_GRBG16LE", "BAYER_GRBG16LE", "", TRUE>>,
      <<"BAYER_GRBG16BE", "BAYER_GRBG16BE", "", TRUE>>,
      <<"YUV440P10LE", "YUV440P10LE", "", TRUE>>,
      <<"YUV440P10BE", "YUV440P10BE", "", TRUE>>,
      <<"YUV440P12LE", "YUV440P12LE", "", TRUE>>,
      <<"YUV440P12BE", "YUV440P12BE", "", TRUE>>,
      <<"AYUV64LE", "AYUV64LE", "", TRUE>>,
      <<"AYUV64BE", "AYUV64BE", "", TRUE>>,
      <<"VIDEOTOOLBOX", "VIDEOTOOLBOX", "", TRUE>>,
      <<"XVMC", "XVMC", "ff_api_xvmc", FALSE>>,
      <<"RGB32", "RGB32", "", TRUE>>,
      <<"RGB32_1", "RGB32_1", "", TRUE>>,
      <<"BGR32", "BGR32", "", TRUE>>,
      <<"BGR32_1", "BGR32_1", "", TRUE>>,
      <<"ZRGB32", "ZRGB32", "", TRUE>>,
      <<"ZBGR32", "ZBGR32", "", TRUE>>,
      <<"GRAY16", "GRAY16", "", TRUE>>,
      <<"YA16", "YA16", "", TRUE>>,
      <<"RGB48", "RGB48", "", TRUE>>,
      <<"RGB565", "RGB565", "", TRUE>>,
      <<"RGB555", "RGB555", "", TRUE>>,
      <<"RGB444", "RGB444", "", TRUE>>,
      <<"BGR48", "BGR48", "", TRUE>>,
      <<"BGR565", "BGR565", "", TRUE>>,
      <<"BGR555", "BGR555", "", TRUE>>,
      <<"BGR444", "BGR444", "", TRUE>>,
      <<"YUV420P9", "YUV420P9", "", TRUE>>,
      <<"YUV422P9", "YUV422P9", "", TRUE>>,
      <<"YUV444P9", "YUV444P9", "", TRUE>>,
      <<"YUV420P10", "YUV420P10", "", TRUE>>,
      <<"YUV422P10", "YUV422P10", "", TRUE>>,
      <<"YUV440P10", "YUV440P10", "", TRUE>>,
      <<"YUV444P10", "YUV444P10", "", TRUE>>,
      <<"YUV420P12", "YUV420P12", "", TRUE>>,
      <<"YUV422P12", "YUV422P12", "", TRUE>>,
      <<"YUV440P12", "YUV440P12", "", TRUE>>,
      <<"YUV444P12", "YUV444P12", "", TRUE>>,
      <<"YUV420P14", "YUV420P14", "", TRUE>>,
      <<"YUV422P14", "YUV422P14", "", TRUE>>,
      <<"YUV444P14", "YUV444P14", "", TRUE>>,
      <<"YUV420P16", "YUV420P16", "", TRUE>>,
      <<"YUV422P16", "YUV422P16", "", TRUE>>,
      <<"YUV444P16", "YUV444P16", "", TRUE>>,
      <<"GBRP9", "GBRP9", "", TRUE>>,
      <<"GBRP10", "GBRP10", "", TRUE>>,
      <<"GBRP12", "GBRP12", "", TRUE>>,
      <<"GBRP14", "GBRP14", "", TRUE>>,
      <<"GBRP16", "GBRP16", "", TRUE>>,
      <<"GBRAP16", "GBRAP16", "", TRUE>>,
      <<"BAYER_BGGR16", "BAYER_BGGR16", "", TRUE>>,
      <<"BAYER_RGGB16", "BAYER_RGGB16", "", TRUE>>,
      <<"BAYER_GBRG16", "BAYER_GBRG16", "", TRUE>>,
      <<"BAYER_GRBG16", "BAYER_GRBG16", "", TRUE>>,
      <<"YUVA420P9", "YUVA420P9", "", TRUE>>,
      <<"YUVA422P9", "YUVA422P9", "", TRUE>>,
      <<"YUVA444P9", "YUVA444P9", "", TRUE>>,
      <<"YUVA420P10", "YUVA420P10", "", TRUE>>,
      <<"YUVA422P10", "YUVA422P10", "", TRUE>>,
      <<"YUVA444P10", "YUVA444P10", "", TRUE>>,
      <<"YUVA420P16", "YUVA420P16", "", TRUE>>,
      <<"YUVA422P16", "YUVA422P16", "", TRUE>>,
      <<"YUVA444P16", "YUVA444P16", "", TRUE>>,
      <<"XYZ12", "XYZ12", "", TRUE>>,
      <<"NV20", "NV20", "", TRUE>>,
      <<"AYUV64", "AYUV64", "", TRUE>>,
      <<"P010LE", "P010LE", "", TRUE>>,
      <<"P010BE", "P010BE", "", TRUE>>,
      <<"GBRAP12BE", "GBRAP12BE", "", TRUE>>,
      <<"GBRAP12LE", "GBRAP12LE", "", TRUE>>,
      <<"GBRAP10LE", "GBRAP10LE", "", TRUE>>,
      <<"GBRAP10BE", "GBRAP10BE", "", TRUE>>,
      <<"MEDIACODEC", "MEDIACODEC", "", TRUE>>,
      <<"GRAY12BE", "GRAY12BE", "", TRUE>>,
      <<"GRAY12LE", "GRAY12LE", "", TRUE>>,
      <<"GRAY10BE", "GRAY10BE", "", TRUE>>,
      <<"GRAY10LE", "GRAY10LE", "", TRUE>>,
      <<"P016LE", "P016LE", "", TRUE>>,
      <<"P016BE", "P016BE", "", TRUE>>,
      <<"D3D11", "D3D11", "", TRUE>>,
      <<"GRAY9BE", "GRAY9BE", "", TRUE>>,
      <<"GRAY9LE", "GRAY9LE", "", TRUE>>,
      <<"GBRPF32BE", "GBRPF32BE", "", TRUE>>,
      <<"GBRPF32LE", "GBRPF32LE", "", TRUE>>,
      <<"GBRAPF32BE", "GBRAPF32BE", "", TRUE>>,
      <<"GBRAPF32LE", "GBRAPF32LE", "", TRUE>>,
      <<"DRM_PRIME", "DRM_PRIME", "", TRUE>>,
      <<"OPENCL", "OPENCL", "ffmpeg_4_0", TRUE>>,
      <<"GRAY14BE", "GRAY14BE", "ffmpeg_4_1", TRUE>>,
      <<"GRAY14LE", "GRAY14LE", "ffmpeg_4_1", TRUE>>,
      <<"GRAYF32BE", "GRAYF32BE", "ffmpeg_4_1", TRUE>>,
      <<"GRAYF32LE", "GRAYF32LE", "ffmpeg_4_1", TRUE>>,
      <<"YUVA422P12BE", "YUVA422P12BE", "ffmpeg_4_2", TRUE>>,
      <<"YUVA422P12LE", "YUVA422P12LE", "ffmpeg_4_2", TRUE>>,
      <<"YUVA444P12BE", "YUVA444P12BE", "ffmpeg_4_2", TRUE>>,
      <<"YUVA444P12LE", "YUVA444P12LE", "ffmpeg_4_2", TRUE>>,
      <<"NV24", "NV24", "ffmpeg_4_2", TRUE>>,
      <<"NV42", "NV42", "ffmpeg_4_2", TRUE>>,
      <<"VULKAN", "VULKAN", "ffmpeg_4_3", TRUE>>,
      <<"Y210BE", "Y210BE", "ffmpeg_4_3", TRUE>>,
      <<"Y210LE", "Y210LE", "ffmpeg_4_3", TRUE>>,
      <<"X2RGB10LE", "X2RGB10LE", "ffmpeg_4_4", TRUE>>,
      <<"X2RGB10BE", "X2RGB10BE", "ffmpeg_4_4", TRUE>>,
      <<"RPI", "RPI", "rpi", TRUE>>,
      <<"SAND128", "SAND128", "rpi", TRUE>>,
      <<"SAND64_10", "SAND64_10", "rpi", TRUE>>,
      <<"SAND64_16", "SAND64_16", "rpi", TRUE>>,
      <<"RPI4_8", "RPI4_8", "rpi", TRUE>>,
      <<"RPI4_10", "RPI4_10", "rpi", TRUE>>
   >>

\* src/util/format/pixel.rs: the arms of impl From<AVPixelFormat> for Pixel, in source order
PixelFromArms ==
   <<
      <<"AV_PIX_FMT_NONE", "None", "", TRUE>>,
      <<"AV_PIX_FMT_YUV420P", "YUV420P", "", TRUE>>,
      <<"AV_PIX_FMT_YUYV422", "YUYV422", "", TRUE>>,
      <<"AV_PIX_FMT_RGB24", "RGB24", "", TRUE>>,
      <<"AV_PIX_FMT_BGR24", "BGR24", "", TRUE>>,
      <<"AV_PIX_FMT_YUV422P", "YUV422P", "", TRUE>>,
      <<"AV_PIX_FMT_YUV444P", "YUV444P", "", TRUE>>,
      <<"AV_PIX_FMT_YUV410P", "YUV410P", "", TRUE>>,
      <<"AV_PIX_FMT_YUV411P", "YUV411P", "", TRUE>>,
      <<"AV_PIX_FMT_GRAY8", "GRAY8", "", TRUE>>,
      <<"AV_PIX_FMT_MONOWHITE", "MonoWhite", "", TRUE>>,
      <<"AV_PIX_FMT_MONOBLACK", "MonoBlack", "", TRUE>>,
      <<"AV_PIX_FMT_PAL8", "PAL8", "", TRUE>>,
      <<"AV_PIX_FMT_YUVJ420P", "YUVJ420P", "", TRUE>>,
      <<"AV_PIX_FMT_YUVJ422P", "YUVJ422P", "", TRUE>>,
      <<"AV_PIX_FMT_YUVJ444P", "YUVJ444P", "", TRUE>>,
      <<"AV_PIX_FMT_XVMC", "XVMC", "ff_api_xvmc", FALSE>>,
      <<"AV_PIX_FMT_XVMC_MPEG2_MC", "XVMC_MPEG2_MC", "ff_api_xvmc", TRUE>>,
      <<"AV_PIX_FMT_XVMC_MPEG2_IDCT", "XVMC_MPEG2_IDCT", "ff_api_xvmc", TRUE>>,
      <<"AV_PIX_FMT_UYVY422", "UYVY422", "", TRUE>>,
      <<"AV_PIX_FMT_UYYVYY411", "UYYVYY411", "", TRUE>>,
      <<"AV_PIX_FMT_BGR8", "BGR8", "", TRUE>>,
      <<"AV_PIX_FMT_BGR4", "BGR4", "", TRUE>>,
      <<"AV_PIX_FMT_BGR4_BYTE", "BGR4_BYTE", "", TRUE>>,
      <<"AV_PIX_FMT_RGB8", "RGB8", "", TRUE>>,
      <<"AV_PIX_FMT_RGB4", "RGB4", "", TRUE>>,
      <<"AV_PIX_FMT_RGB4_BYTE", "RGB4_BYTE", "", TRUE>>,
      <<"AV_PIX_FMT_NV12", "NV12", "", TRUE>>,
      <<"AV_PIX_FMT_NV21", "NV21", "", TRUE>>,
      <<"AV_PIX_FMT_ARGB", "ARGB", "", TRUE>>,
      <<"AV_PIX_FMT_RGBA", "RGBA", "", TRUE>>,
      <<"AV_PIX_FMT_ABGR", "ABGR", "", TRUE>>,
      <<"AV_PIX_FMT_BGRA", "BGRA", "", TRUE>>,
      <<"AV_PIX_FMT_GRAY16BE", "GRAY16BE", "", TRUE>>,
      <<"AV_PIX_FMT_GRAY16LE", "GRAY16LE", "", TRUE>>,
      <<"AV_PIX_FMT_YUV440P", "YUV440P", "", TRUE>>,
      <<"AV_PIX_FMT_YUVJ440P", "YUVJ440P", "", TRUE>>,
      <<"AV_PIX_FMT_YUVA420P", "YUVA420P", "", TRUE>>,
      <<"AV_PIX_FMT_VDPAU_H264", "VDPAU_H264", "ff_api_vdpau", TRUE>>,
      <<"AV_PIX_FMT_VDPAU_MPEG1", "VDPAU_MPEG1", "ff_api_vdpau", TRUE>>,
      <<"AV_PIX_FMT_VDPAU_MPEG2", "VDPAU_MPEG2", "ff_api_vdpau", TRUE>>,
      <<"AV_PIX_FMT_VDPAU_WMV3", "VDPAU_WMV3", "ff_api_vdpau", TRUE>>,
      <<"AV_PIX_FMT_VDPAU_VC1", "VDPAU_VC1", "ff_api_vdpau", TRUE>>,
      <<"AV_PIX_FMT_RGB48BE", "RGB48BE", "", TRUE>>,
      <<"AV_PIX_FMT_RGB48LE", "RGB48LE", "", TRUE>>,
      <<"AV_PIX_FMT_RGB565BE", "RGB565BE", "", TRUE>>,
      <<"AV_PIX_FMT_RGB565LE", "RGB565LE", "", TRUE>>,
      <<"AV_PIX_FMT_RGB555BE", "RGB555BE", "", TRUE>>,
      <<"AV_PIX_FMT_RGB555LE", "RGB555LE", "", TRUE>>,
      <<"AV_PIX_FMT_BGR565BE", "BGR565BE", "", TRUE>>,
      <<"AV_PIX_FMT_BGR565LE", "BGR565LE", "", TRUE>>,
      <<"AV_PIX_FMT_BGR555BE", "BGR555BE", "", TRUE>>,
      <<"AV_PIX_FMT_BGR555LE", "BGR555LE", "", TRUE>>,
      <<"AV_PIX_FMT_VAAPI_MOCO", "VAAPI_MOCO", "ff_api_vaapi", TRUE>>,
      <<"AV_PIX_FMT_VAAPI_IDCT", "VAAPI_IDCT", "ff_api_vaapi", TRUE>>,
      <<"AV_PIX_FMT_VAAPI_VLD", "VAAPI_VLD", "ff_api_vaapi", TRUE>>,
      <<"AV_PIX_FMT_YUV420P16LE", "YUV420P16LE", "", TRUE>>,
      <<"AV_PIX_FMT_YUV420P16BE", "YUV420P16BE", "", TRUE>>,
      <<"AV_PIX_FMT_YUV422P16LE", "YUV422P16LE", "", TRUE>>,
      <<"AV_PIX_FMT_YUV422P16BE", "YUV422P16BE", "", TRUE>>,
      <<"AV_PIX_FMT_YUV444P16LE", "YUV444P16LE", "", TRUE>>,
      <<"AV_PIX_FMT_YUV444P16BE", "YUV444P16BE", "", TRUE>>,
      <<"AV_PIX_FMT_VDPAU_MPEG4", "VDPAU_MPEG4", "ff_api_vdpau", TRUE>>,
      <<"AV_PIX_FMT_DXVA2_VLD", "DXVA2_VLD", "", TRUE>>,
      <<"AV_PIX_FMT_RGB444LE", "RGB444LE", "", TRUE>>,
      <<"AV_PIX_FMT_RGB444BE", "RGB444BE", "", TRUE>>,
      <<"AV_PIX_FMT_BGR444LE", "BGR444LE", "", TRUE>>,
      <<"AV_PIX_FMT_BGR444BE", "BGR444BE", "", TRUE>>,
      <<"AV_PIX_FMT_YA8", "YA8", "", TRUE>>,
      <<"AV_PIX_FMT_BGR48BE", "BGR48BE", "", TRUE>>,
      <<"AV_PIX_FMT_BGR48LE", "BGR48LE", "", TRUE>>,
      <<"AV_PIX_FMT_YUV420P9BE", "YUV420P9BE", "", TRUE>>,
      <<"AV_PIX_FMT_YUV420P9LE", "YUV420P9LE", "", TRUE>>,
      <<"AV_PIX_FMT_YUV420P10BE", "YUV420P10BE", "", TRUE>>,
      <<"AV_PIX_FMT_YUV420P10LE", "YUV420P10LE", "", TRUE>>,
      <<"AV_PIX_FMT_YUV422P10BE", "YUV422P10BE", "", TRUE>>,
      <<"AV_PIX_FMT_YUV422P10LE", "YUV422P10LE", "", TRUE>>,
      <<"AV_PIX_FMT_YUV444P9BE", "YUV444P9BE", "", TRUE>>,
      <<"AV_PIX_FMT_YUV444P9LE", "YUV444P9LE", "", TRUE>>,
      <<"AV_PIX_FMT_YUV444P10BE", "YUV444P10BE", "", TRUE>>,
      <<"AV_PIX_FMT_YUV444P10LE", "YUV444P10LE", "", TRUE>>,
      <<"AV_PIX_FMT_YUV422P9BE", "YUV422P9BE", "", TRUE>>,
      <<"AV_PIX_FMT_YUV422P9LE", "YUV422P9LE", "", TRUE>>,
      <<"AV_PIX_FMT_VDA_VLD", "VDA_VLD", "ffmpeg_4_0", FALSE>>,
      <<"AV_PIX_FMT_GBRP", "GBRP", "", TRUE>>,
      <<"AV_PIX_FMT_GBRP9BE", "GBRP9BE", "", TRUE>>,
      <<"AV_PIX_FMT_GBRP9LE", "GBRP9LE", "", TRUE>>,
      <<"AV_PIX_FMT_GBRP10BE", "GBRP10BE", "", TRUE>>,
      <<"AV_PIX_FMT_GBRP10LE", "GBRP10LE", "", TRUE>>,
      <<"AV_PIX_FMT_GBRP16BE", "GBRP16BE", "", TRUE>>,
      <<"AV_PIX_FMT_GBRP16LE", "GBRP16LE", "", TRUE>>,
      <<"AV_PIX_FMT_YUVA420P9BE", "YUVA420P9BE", "", TRUE>>,
      <<"AV_PIX_FMT_YUVA420P9LE", "YUVA420P9LE", "", TRUE>>,
      <<"AV_PIX_FMT_YUVA422P9BE", "YUVA422P9BE", "", TRUE>>,
      <<"AV_PIX_FMT_YUVA422P9LE", "YUVA422P9LE", "", TRUE>>,
      <<"AV_PIX_FMT_YUVA444P9BE", "YUVA444P9BE", "", TRUE>>,
      <<"AV_PIX_FMT_YUVA444P9LE", "YUVA444P9LE", "", TRUE>>,
      <<"AV_PIX_FMT_YUVA420P10BE", "YUVA420P10BE", "", TRUE>>,
      <<"AV_PIX_FMT_YUVA420P10LE", "YUVA420P10LE", "", TRUE>>,
      <<"AV_PIX_FMT_YUVA422P10BE", "YUVA422P10BE", "", TRUE>>,
      <<"AV_PIX_FMT_YUVA422P10LE", "YUVA422P10LE", "", TRUE>>,
      <<"AV_PIX_FMT_YUVA444P10BE", "YUVA444P10BE", "", TRUE>>,
      <<"AV_PIX_FMT_YUVA444P10LE", "YUVA444P10LE", "", TRUE>>,
      <<"AV_PIX_FMT_YUVA420P16BE", "YUVA420P16BE", "", TRUE>>,
      <<"AV_PIX_FMT_YUVA420P16LE", "YUVA420P16LE", "", TRUE>>,
      <<"AV_PIX_FMT_YUVA422P16BE", "YUVA422P16BE", "", TRUE>>,
      <<"AV_PIX_FMT_YUVA422P16LE", "YUVA422P16LE", "", TRUE>>,
      <<"AV_PIX_FMT_YUVA444P16BE", "YUVA444P16BE", "", TRUE>>,
      <<"AV_PIX_FMT_YUVA444P16LE", "YUVA444P16LE", "", TRUE>>,
      <<"AV_PIX_FMT_VDPAU", "VDPAU", "", TRUE>>,
      <<"AV_PIX_FMT_XYZ12LE", "XYZ12LE", "", TRUE>>,
      <<"AV_PIX_FMT_XYZ12BE", "XYZ12BE", "", TRUE>>,
      <<"AV_PIX_FMT_NV16", "NV16", "", TRUE>>,
      <<"AV_PIX_FMT_NV20LE", "NV20LE", "", TRUE>>,
      <<"AV_PIX_FMT_NV20BE", "NV20BE", "", TRUE>>,
      <<"AV_PIX_FMT_RGBA64BE", "RGBA64BE", "", TRUE>>,
      <<"AV_PIX_FMT_RGBA64LE", "RGBA64LE", "", TRUE>>,
      <<"AV_PIX_FMT_BGRA64BE", "BGRA64BE", "", TRUE>>,
      <<"AV_PIX_FMT_BGRA64LE", "BGRA64LE", "", TRUE>>,
      <<"AV_PIX_FMT_YVYU422", "YVYU422", "", TRUE>>,
      <<"AV_PIX_FMT_VDA", "VDA", "ffmpeg_4_0", FALSE>>,
      <<"AV_PIX_FMT_YA16BE", "YA16BE", "", TRUE>>,
      <<"AV_PIX_FMT_YA16LE", "YA16LE", "", TRUE>>,
      <<"AV_PIX_FMT_QSV", "QSV", "", TRUE>>,
      <<"AV_PIX_FMT_MMAL", "MMAL", "", TRUE>>,
      <<"AV_PIX_FMT_D3D11VA_VLD", "D3D11VA_VLD", "", TRUE>>,
      <<"AV_PIX_FMT_CUDA", "CUDA", "", TRUE>>,
      <<"AV_PIX_FMT_0RGB", "ZRGB", "", TRUE>>,
      <<"AV_PIX_FMT_RGB0", "RGBZ", "", TRUE>>,
      <<"AV_PIX_FMT_0BGR", "ZBGR", "", TRUE>>,
      <<"AV_PIX_FMT_BGR0", "BGRZ", "", TRUE>>,
      <<"AV_PIX_FMT_YUVA444P", "YUVA444P", "", TRUE>>,
      <<"AV_PIX_FMT_YUVA422P", "YUVA422P", "", TRUE>>,
      <<"AV_PIX_FMT_YUV420P12BE", "YUV420P12BE", "", TRUE>>,
      <<"AV_PIX_FMT_YUV420P12LE", "YUV420P12LE", "", TRUE>>,
      <<"AV_PIX_FMT_YUV420P14BE", "YUV420P14BE", "", TRUE>>,
      <<"AV_PIX_FMT_YUV420P14LE", "YUV420P14LE", "", TRUE>>,
      <<"AV_PIX_FMT_YUV422P12BE", "YUV422P12BE", "", TRUE>>,
      <<"AV_PIX_FMT_YUV422P12LE", "YUV422P12LE", "", TRUE>>,
      <<"AV_PIX_FMT_YUV422P14BE", "YUV422P14BE", "", TRUE>>,
      <<"AV_PIX_FMT_YUV422P14LE", "YUV422P14LE", "", TRUE>>,
      <<"AV_PIX_FMT_YUV444P12BE", "YUV444P12BE", "", TRUE>>,
      <<"AV_PIX_FMT_YUV444P12LE", "YUV444P12LE", "", TRUE>>,
      <<"AV_PIX_FMT_YUV444P14BE", "YUV444P14BE", "", TRUE>>,
      <<"AV_PIX_FMT_YUV444P14LE", "YUV444P14LE", "", TRUE>>,
      <<"AV_PIX_FMT_GBRP12BE", "GBRP12BE", "", TRUE>>,
      <<"AV_PIX_FMT_GBRP12LE", "GBRP12LE", "", TRUE>>,
      <<"AV_PIX_FMT_GBRP14BE", "GBRP14BE", "", TRUE>>,
      <<"AV_PIX_FMT_GBRP14LE", "GBRP14LE", "", TRUE>>,
      <<"AV_PIX_FMT_GBRAP", "GBRAP", "", TRUE>>,
      <<"AV_PIX_FMT_GBRAP16BE", "GBRAP16BE", "", TRUE>>,
      <<"AV_PIX_FMT_GBRAP16LE", "GBRAP16LE", "", TRUE>>,
      <<"AV_PIX_FMT_YUVJ411P", "YUVJ411P", "", TRUE>>,
      <<"AV_PIX_FMT_BAYER_BGGR8", "BAYER_BGGR8", "", TRUE>>,
      <<"AV_PIX_FMT_BAYER_RGGB8", "BAYER_RGGB8", "", TRUE>>,
      <<"AV_PIX_FMT_BAYER_GBRG8", "BAYER_GBRG8", "", TRUE>>,
      <<"AV_PIX_FMT_BAYER_GRBG8", "BAYER_GRBG8", "", TRUE>>,
      <<"AV_PIX_FMT_BAYER_BGGR16LE", "BAYER_BGGR16LE", "", TRUE>>,
      <<"AV_PIX_FMT_BAYER_BGGR16BE", "BAYER_BGGR16BE", "", TRUE>>,
      <<"AV_PIX_FMT_BAYER_RGGB16LE", "BAYER_RGGB16LE", "", TRUE>>,
      <<"AV_PIX_FMT_BAYER_RGGB16BE", "BAYER_RGGB16BE", "", TRUE>>,
      <<"AV_PIX_FMT_BAYER_GBRG16LE", "BAYER_GBRG16LE", "", TRUE>>,
      <<"AV_PIX_FMT_BAYER_GBRG16BE", "BAYER_GBRG16BE", "", TRUE>>,
      <<"AV_PIX_FMT_BAYER_GRBG16LE", "BAYER_GRBG16LE", "", TRUE>>,
      <<"AV_PIX_FMT_BAYER_GRBG16BE", "BAYER_GRBG16BE", "", TRUE>>,
      <<"AV_PIX_FMT_YUV440P10LE", "YUV440P10LE", "", TRUE>>,
      <<"AV_PIX_FMT_YUV440P10BE", "YUV440P10BE", "", TRUE>>,
      <<"AV_PIX_FMT_YUV440P12LE", "YUV440P12LE", "", TRUE>>,
      <<"AV_PIX_FMT_YUV440P12BE", "YUV440P12BE", "", TRUE>>,
      <<"AV_PIX_FMT_AYUV64LE", "AYUV64LE", "", TRUE>>,
      <<"AV_PIX_FMT_AYUV64BE", "AYUV64BE", "", TRUE>>,
      <<"AV_PIX_FMT_VIDEOTOOLBOX", "VIDEOTOOLBOX", "", TRUE>>,
      <<"AV_PIX_FMT_P010LE", "P010LE", "", TRUE>>,
      <<"AV_PIX_FMT_P010BE", "P010BE", "", TRUE>>,
      <<"AV_PIX_FMT_GBRAP12BE", "GBRAP12BE", "", TRUE>>,
      <<"AV_PIX_FMT_GBRAP12LE", "GBRAP12LE", "", TRUE>>,
      <<"AV_PIX_FMT_GBRAP10LE", "GBRAP10LE", "", TRUE>>,
      <<"AV_PIX_FMT_GBRAP10BE", "GBRAP10BE", "", TRUE>>,
      <<"AV_PIX_FMT_MEDIACODEC", "MEDIACODEC", "", TRUE>>,
      <<"AV_PIX_FMT_GRAY12BE", "GRAY12BE", "", TRUE>>,
      <<"AV_PIX_FMT_GRAY12LE", "GRAY12LE", "", TRUE>>,
      <<"AV_PIX_FMT_GRAY10BE", "GRAY10BE", "", TRUE>>,
      <<"AV_PIX_FMT_GRAY10LE", "GRAY10LE", "", TRUE>>,
      <<"AV_PIX_FMT_P016LE", "P016LE", "", TRUE>>,
      <<"AV_PIX_FMT_P016BE", "P016BE", "", TRUE>>,
      <<"AV_PIX_FMT_NB", "None", "", TRUE>>,
      <<"AV_PIX_FMT_D3D11", "D3D11", "", TRUE>>,
      <<"AV_PIX_FMT_GRAY9BE", "GRAY9BE", "", TRUE>>,
      <<"AV_PIX_FMT_GRAY9LE", "GRAY9LE", "", TRUE>>,
      <<"AV_PIX_FMT_GBRPF32BE", "GBRPF32BE", "", TRUE>>,
      <<"AV_PIX_FMT_GBRPF32LE", "GBRPF32LE", "", TRUE>>,
      <<"AV_PIX_FMT_GBRAPF32BE", "GBRAPF32BE", "", TRUE>>,
      <<"AV_PIX_FMT_GBRAPF32LE", "GBRAPF32LE", "", TRUE>>,
      <<"AV_PIX_FMT_DRM_PRIME", "DRM_PRIME", "", TRUE>>,
      <<"AV_PIX_FMT_OPENCL", "OPENCL", "ffmpeg_4_0", TRUE>>,
      <<"AV_PIX_FMT_GRAY14BE", "GRAY14BE", "ffmpeg_4_1", TRUE>>,
      <<"AV_PIX_FMT_GRAY14LE", "GRAY14LE", "ffmpeg_4_1", TRUE>>,
      <<"AV_PIX_FMT_GRAYF32BE", "GRAYF32BE", "ffmpeg_4_1", TRUE>>,
      <<"AV_PIX_FMT_GRAYF32LE", "GRAYF32LE", "ffmpeg_4_1", TRUE>>,
      <<"AV_PIX_FMT_YUVA422P12BE", "YUVA422P12BE", "ffmpeg_4_2", TRUE>>,
      <<"AV_PIX_FMT_YUVA422P12LE", "YUVA422P12LE", "ffmpeg_4_2", TRUE>>,
      <<"AV_PIX_FMT_YUVA444P12BE", "YUVA444P12BE", "ffmpeg_4_2", TRUE>>,
      <<"AV_PIX_FMT_YUVA444P12LE", "YUVA444P12LE", "ffmpeg_4_2", TRUE>>,
      <<"AV_PIX_FMT_NV24", "NV24", "ffmpeg_4_2", TRUE>>,
      <<"AV_PIX_FMT_NV42", "NV42", "ffmpeg_4_2", TRUE>>,
      <<"AV_PIX_FMT_VULKAN", "VULKAN", "ffmpeg_4_3", TRUE>>,
      <<"AV_PIX_FMT_Y210BE", "Y210BE", "ffmpeg_4_3", TRUE>>,
      <<"AV_PIX_FMT_Y210LE", "Y210LE", "ffmpeg_4_3", TRUE>>,
      <<"AV_PIX_FMT_X2RGB10LE", "X2RGB10LE", "ffmpeg_4_4", TRUE>>,
      <<"AV_PIX_FMT_X2RGB10BE", "X2RGB10BE", "ffmpeg_4_4", TRUE>>,
      <<"AV_PIX_FMT_RPI", "RPI", "rpi", TRUE>>,
      <<"AV_PIX_FMT_SAND128", "SAND128", "rpi", TRUE>>,
      <<"AV_PIX_FMT_SAND64_10", "SAND64_10", "rpi", TRUE>>,
      <<"AV_PIX_FMT_SAND64_16", "SAND64_16", "rpi", TRUE>>,
      <<"AV_PIX_FMT_RPI4_8", "RPI4_8", "rpi", TRUE>>,
      <<"AV_PIX_FMT_RPI4_10", "RPI4_10", "rpi", TRUE>>
   >>

\* src/util/format/pixel.rs: the arms of impl From<Pixel> for AVPixelFormat, in source order
PixelToArms ==
   <<
      <<"None", "AV_PIX_FMT_NONE", "", TRUE>>,
      <<"YUV420P", "AV_PIX_FMT_YUV420P", "", TRUE>>,
      <<"YUYV422", "AV_PIX_FMT_YUYV422", "", TRUE>>,
      <<"RGB24", "AV_PIX_FMT_RGB24", "", TRUE>>,
      <<"BGR24", "AV_PIX_FMT_BGR24", "", TRUE>>,
      <<"YUV422P", "AV_PIX_FMT_YUV422P", "", TRUE>>,
      <<"YUV444P", "AV_PIX_FMT_YUV444P", "", TRUE>>,
      <<"YUV410P", "AV_PIX_FMT_YUV410P", "", TRUE>>,
      <<"YUV411P", "AV_PIX_FMT_YUV411P", "", TRUE>>,
      <<"GRAY8", "AV_PIX_FMT_GRAY8", "", TRUE>>,
      <<"MonoWhite", "AV_PIX_FMT_MONOWHITE", "", TRUE>>,
      <<"MonoBlack", "AV_PIX_FMT_MONOBLACK", "", TRUE>>,
      <<"PAL8", "AV_PIX_FMT_PAL8", "", TRUE>>,
      <<"YUVJ420P", "AV_PIX_FMT_YUVJ420P", "", TRUE>>,
      <<"YUVJ422P", "AV_PIX_FMT_YUVJ422P", "", TRUE>>,
      <<"YUVJ444P", "AV_PIX_FMT_YUVJ444P", "", TRUE>>,
      <<"XVMC_MPEG2_MC", "AV_PIX_FMT_XVMC_MPEG2_MC", "ff_api_xvmc", TRUE>>,
      <<"XVMC_MPEG2_IDCT", "AV_PIX_FMT_XVMC_MPEG2_IDCT", "ff_api_xvmc", TRUE>>,
      <<"UYVY422", "AV_PIX_FMT_UYVY422", "", TRUE>>,
      <<"UYYVYY411", "AV_PIX_FMT_UYYVYY411", "", TRUE>>,
      <<"BGR8", "AV_PIX_FMT_BGR8", "", TRUE>>,
      <<"BGR4", "AV_PIX_FMT_BGR4", "", TRUE>>,
      <<"BGR4_BYTE", "AV_PIX_FMT_BGR4_BYTE", "", TRUE>>,
      <<"RGB8", "AV_PIX_FMT_RGB8", "", TRUE>>,
      <<"RGB4", "AV_PIX_FMT_RGB4", "", TRUE>>,
      <<"RGB4_BYTE", "AV_PIX_FMT_RGB4_BYTE", "", TRUE>>,
      <<"NV12", "AV_PIX_FMT_NV12", "", TRUE>>,
      <<"NV21", "AV_PIX_FMT_NV21", "", TRUE>>,
      <<"ARGB", "AV_PIX_FMT_ARGB", "", TRUE>>,
      <<"RGBA", "AV_PIX_FMT_RGBA", "", TRUE>>,
      <<"ABGR", "AV_PIX_FMT_ABGR", "", TRUE>>,
      <<"BGRA", "AV_PIX_FMT_BGRA", "", TRUE>>,
      <<"GRAY16BE", "AV_PIX_FMT_GRAY16BE", "", TRUE>>,
      <<"GRAY16LE", "AV_PIX_FMT_GRAY16LE", "", TRUE>>,
      <<"YUV440P", "AV_PIX_FMT_YUV440P", "", TRUE>>,
      <<"YUVJ440P", "AV_PIX_FMT_YUVJ440P", "", TRUE>>,
      <<"YUVA420P", "AV_PIX_FMT_YUVA420P", "", TRUE>>,
      <<"VDPAU_H264", "AV_PIX_FMT_VDPAU_H264", "ff_api_vdpau", TRUE>>,
      <<"VDPAU_MPEG1", "AV_PIX_FMT_VDPAU_MPEG1", "ff_api_vdpau", TRUE>>,
      <<"VDPAU_MPEG2", "AV_PIX_FMT_VDPAU_MPEG2", "ff_api_vdpau", TRUE>>,
      <<"VDPAU_WMV3", "AV_PIX_FMT_VDPAU_WMV3", "ff_api_vdpau", TRUE>>,
      <<"VDPAU_VC1", "AV_PIX_FMT_VDPAU_VC1", "ff_api_vdpau", TRUE>>,
      <<"RGB48BE", "AV_PIX_FMT_RGB48BE", "", TRUE>>,
      <<"RGB48LE", "AV_PIX_FMT_RGB48LE", "", TRUE>>,
      <<"RGB565BE", "AV_PIX_FMT_RGB565BE", "", TRUE>>,
      <<"RGB565LE", "AV_PIX_FMT_RGB565LE", "", TRUE>>,
      <<"RGB555BE", "AV_PIX_FMT_RGB555BE", "", TRUE>>,
      <<"RGB555LE", "AV_PIX_FMT_RGB555LE", "", TRUE>>,
      <<"BGR565BE", "AV_PIX_FMT_BGR565BE", "", TRUE>>,
      <<"BGR565LE", "AV_PIX_FMT_BGR565LE", "", TRUE>>,
      <<"BGR555BE", "AV_PIX_FMT_BGR555BE", "", TRUE>>,
      <<"BGR555LE", "AV_PIX_FMT_BGR555LE", "", TRUE>>,
      <<"VAAPI_MOCO", "AV_PIX_FMT_VAAPI_MOCO", "ff_api_vaapi", TRUE>>,
      <<"VAAPI_IDCT", "AV_PIX_FMT_VAAPI_IDCT", "ff_api_vaapi", TRUE>>,
      <<"VAAPI_VLD", "AV_PIX_FMT_VAAPI_VLD", "ff_api_vaapi", TRUE>>,
      <<"VAAPI", "AV_PIX_FMT_VAAPI", "ff_api_vaapi", FALSE>>,
      <<"YUV420P16LE", "AV_PIX_FMT_YUV420P16LE", "", TRUE>>,
      <<"YUV420P16BE", "AV_PIX_FMT_YUV420P16BE", "", TRUE>>,
      <<"YUV422P16LE", "AV_PIX_FMT_YUV422P16LE", "", TRUE>>,
      <<"YUV422P16BE", "AV_PIX_FMT_YUV422P16BE", "", TRUE>>,
      <<"YUV444P16LE", "AV_PIX_FMT_YUV444P16LE", "", TRUE>>,
      <<"YUV444P16BE", "AV_PIX_FMT_YUV444P16BE", "", TRUE>>,
      <<"VDPAU_MPEG4", "AV_PIX_FMT_VDPAU_MPEG4", "ff_api_vdpau", TRUE>>,
      <<"DXVA2_VLD", "AV_PIX_FMT_DXVA2_VLD", "", TRUE>>,
      <<"RGB444LE", "AV_PIX_FMT_RGB444LE", "", TRUE>>,
      <<"RGB444BE", "AV_PIX_FMT_RGB444BE", "", TRUE>>,
      <<"BGR444LE", "AV_PIX_FMT_BGR444LE", "", TRUE>>,
      <<"BGR444BE", "AV_PIX_FMT_BGR444BE", "", TRUE>>,
      <<"YA8", "AV_PIX_FMT_YA8", "", TRUE>>,
      <<"BGR48BE", "AV_PIX_FMT_BGR48BE", "", TRUE>>,
      <<"BGR48LE", "AV_PIX_FMT_BGR48LE", "", TRUE>>,
      <<"YUV420P9BE", "AV_PIX_FMT_YUV420P9BE", "", TRUE>>,
      <<"YUV420P9LE", "AV_PIX_FMT_YUV420P9LE", "", TRUE>>,
      <<"YUV420P10BE", "AV_PIX_FMT_YUV420P10BE", "", TRUE>>,
      <<"YUV420P10LE", "AV_PIX_FMT_YUV420P10LE", "", TRUE>>,
      <<"YUV422P10BE", "AV_PIX_FMT_YUV422P10BE", "", TRUE>>,
      <<"YUV422P10LE", "AV_PIX_FMT_YUV422P10LE", "", TRUE>>,
      <<"YUV444P9BE", "AV_PIX_FMT_YUV444P9BE", "", TRUE>>,
      <<"YUV444P9LE", "AV_PIX_FMT_YUV444P9LE", "", TRUE>>,
      <<"YUV444P10BE", "AV_PIX_FMT_YUV444P10BE", "", TRUE>>,
      <<"YUV444P10LE", "AV_PIX_FMT_YUV444P10LE", "", TRUE>>,
      <<"YUV422P9BE", "AV_PIX_FMT_YUV422P9BE", "", TRUE>>,
      <<"YUV422P9LE", "AV_PIX_FMT_YUV422P9LE", "", TRUE>>,
      <<"VDA_VLD", "AV_PIX_FMT_VDA_VLD", "ffmpeg_4_0", FALSE>>,
      <<"GBRP", "AV_PIX_FMT_GBRP", "", TRUE>>,
      <<"GBRP9BE", "AV_PIX_FMT_GBRP9BE", "", TRUE>>,
      <<"GBRP9LE", "AV_PIX_FMT_GBRP9LE", "", TRUE>>,
      <<"GBRP10BE", "AV_PIX_FMT_GBRP10BE", "", TRUE>>,
      <<"GBRP10LE", "AV_PIX_FMT_GBRP10LE", "", TRUE>>,
      <<"GBRP16BE", "AV_PIX_FMT_GBRP16BE", "", TRUE>>,
      <<"GBRP16LE", "AV_PIX_FMT_GBRP16LE", "", TRUE>>,
      <<"YUVA420P9BE", "AV_PIX_FMT_YUVA420P9BE", "", TRUE>>,
      <<"YUVA420P9LE", "AV_PIX_FMT_YUVA420P9LE", "", TRUE>>,
      <<"YUVA422P9BE", "AV_PIX_FMT_YUVA422P9BE", "", TRUE>>,
      <<"YUVA422P9LE", "AV_PIX_FMT_YUVA422P9LE", "", TRUE>>,
      <<"YUVA444P9BE", "AV_PIX_FMT_YUVA444P9BE", "", TRUE>>,
      <<"YUVA444P9LE", "AV_PIX_FMT_YUVA444P9LE", "", TRUE>>,
      <<"YUVA420P10BE", "AV_PIX_FMT_YUVA420P10BE", "", TRUE>>,
      <<"YUVA420P10LE", "AV_PIX_FMT_YUVA420P10LE", "", TRUE>>,
      <<"YUVA422P10BE", "AV_PIX_FMT_YUVA422P10BE", "", TRUE>>,
      <<"YUVA422P10LE", "AV_PIX_FMT_YUVA422P10LE", "", TRUE>>,
      <<"YUVA444P10BE", "AV_PIX_FMT_YUVA444P10BE", "", TRUE>>,
      <<"YUVA444P10LE", "AV_PIX_FMT_YUVA444P10LE", "", TRUE>>,
      <<"YUVA420P16BE", "AV_PIX_FMT_YUVA420P16BE", "", TRUE>>,
      <<"YUVA420P16LE", "AV_PIX_FMT_YUVA420P16LE", "", TRUE>>,
      <<"YUVA422P16BE", "AV_PIX_FMT_YUVA422P16BE", "", TRUE>>,
      <<"YUVA422P16LE", "AV_PIX_FMT_YUVA422P16LE", "", TRUE>>,
      <<"YUVA444P16BE", "AV_PIX_FMT_YUVA444P16BE", "", TRUE>>,
      <<"YUVA444P16LE", "AV_PIX_FMT_YUVA444P16LE", "", TRUE>>,
      <<"VDPAU", "AV_PIX_FMT_VDPAU", "", TRUE>>,
      <<"XYZ12LE", "AV_PIX_FMT_XYZ12LE", "", TRUE>>,
      <<"XYZ12BE", "AV_PIX_FMT_XYZ12BE", "", TRUE>>,
      <<"NV16", "AV_PIX_FMT_NV16", "", TRUE>>,
      <<"NV20LE", "AV_PIX_FMT_NV20LE", "", TRUE>>,
      <<"NV20BE", "AV_PIX_FMT_NV20BE", "", TRUE>>,
      <<"RGBA64BE", "AV_PIX_FMT_RGBA64BE", "", TRUE>>,
      <<"RGBA64LE", "AV_PIX_FMT_RGBA64LE", "", TRUE>>,
      <<"BGRA64BE", "AV_PIX_FMT_BGRA64BE", "", TRUE>>,
      <<"BGRA64LE", "AV_PIX_FMT_BGRA64LE", "", TRUE>>,
      <<"YVYU422", "AV_PIX_FMT_YVYU422", "", TRUE>>,
      <<"VDA", "AV_PIX_FMT_VDA", "ffmpeg_4_0", FALSE>>,
      <<"YA16BE", "AV_PIX_FMT_YA16BE", "", TRUE>>,
      <<"YA16LE", "AV_PIX_FMT_YA16LE", "", TRUE>>,
      <<"QSV", "AV_PIX_FMT_QSV", "", TRUE>>,
      <<"MMAL", "AV_PIX_FMT_MMAL", "", TRUE>>,
      <<"D3D11VA_VLD", "AV_PIX_FMT_D3D11VA_VLD", "", TRUE>>,
      <<"CUDA", "AV_PIX_FMT_CUDA", "", TRUE>>,
      <<"ZRGB", "AV_PIX_FMT_0RGB", "", TRUE>>,
      <<"RGBZ", "AV_PIX_FMT_RGB0", "", TRUE>>,
      <<"ZBGR", "AV_PIX_FMT_0BGR", "", TRUE>>,
      <<"BGRZ", "AV_PIX_FMT_BGR0", "", TRUE>>,
      <<"YUVA444P", "AV_PIX_FMT_YUVA444P", "", TRUE>>,
      <<"YUVA422P", "AV_PIX_FMT_YUVA422P", "", TRUE>>,
      <<"YUV420P12BE", "AV_PIX_FMT_YUV420P12BE", "", TRUE>>,
      <<"YUV420P12LE", "AV_PIX_FMT_YUV420P12LE", "", TRUE>>,
      <<"YUV420P14BE", "AV_PIX_FMT_YUV420P14BE", "", TRUE>>,
      <<"YUV420P14LE", "AV_PIX_FMT_YUV420P14LE", "", TRUE>>,
      <<"YUV422P12BE", "AV_PIX_FMT_YUV422P12BE", "", TRUE>>,
      <<"YUV422P12LE", "AV_PIX_FMT_YUV422P12LE", "", TRUE>>,
      <<"YUV422P14BE", "AV_PIX_FMT_YUV422P14BE", "", TRUE>>,
      <<"YUV422P14LE", "AV_PIX_FMT_YUV422P14LE", "", TRUE>>,
      <<"YUV444P12BE", "AV_PIX_FMT_YUV444P12BE", "", TRUE>>,
      <<"YUV444P12LE", "AV_PIX_FMT_YUV444P12LE", "", TRUE>>,
      <<"YUV444P14BE", "AV_PIX_FMT_YUV444P14BE", "", TRUE>>,
      <<"YUV444P14LE", "AV_PIX_FMT_YUV444P14LE", "", TRUE>>,
      <<"GBRP12BE", "AV_PIX_FMT_GBRP12BE", "", TRUE>>,
      <<"GBRP12LE", "AV_PIX_FMT_GBRP12LE", "", TRUE>>,
      <<"GBRP14BE", "AV_PIX_FMT_GBRP14BE", "", TRUE>>,
      <<"GBRP14LE", "AV_PIX_FMT_GBRP14LE", "", TRUE>>,
      <<"GBRAP", "AV_PIX_FMT_GBRAP", "", TRUE>>,
      <<"GBRAP16BE", "AV_PIX_FMT_GBRAP16BE", "", TRUE>>,
      <<"GBRAP16LE", "AV_PIX_FMT_GBRAP16LE", "", TRUE>>,
      <<"YUVJ411P", "AV_PIX_FMT_YUVJ411P", "", TRUE>>,
      <<"BAYER_BGGR8", "AV_PIX_FMT_BAYER_BGGR8", "", TRUE>>,
      <<"BAYER_RGGB8", "AV_PIX_FMT_BAYER_RGGB8", "", TRUE>>,
      <<"BAYER_GBRG8", "AV_PIX_FMT_BAYER_GBRG8", "", TRUE>>,
      <<"BAYER_GRBG8", "AV_PIX_FMT_BAYER_GRBG8", "", TRUE>>,
      <<"BAYER_BGGR16LE", "AV_PIX_FMT_BAYER_BGGR16LE", "", TRUE>>,
      <<"BAYER_BGGR16BE", "AV_PIX_FMT_BAYER_BGGR16BE", "", TRUE>>,
      <<"BAYER_RGGB16LE", "AV_PIX_FMT_BAYER_RGGB16LE", "", TRUE>>,
      <<"BAYER_RGGB16BE", "AV_PIX_FMT_BAYER_RGGB16BE", "", TRUE>>,
      <<"BAYER_GBRG16LE", "AV_PIX_FMT_BAYER_GBRG16LE", "", TRUE>>,
      <<"BAYER_GBRG16BE", "AV_PIX_FMT_BAYER_GBRG16BE", "", TRUE>>,
      <<"BAYER_GRBG16LE", "AV_PIX_FMT_BAYER_GRBG16LE", "", TRUE>>,
      <<"BAYER_GRBG16BE", "AV_PIX_FMT_BAYER_GRBG16BE", "", TRUE>>,
      <<"YUV440P10LE", "AV_PIX_FMT_YUV440P10LE", "", TRUE>>,
      <<"YUV440P10BE", "AV_PIX_FMT_YUV440P10BE", "", TRUE>>,
      <<"YUV440P12LE", "AV_PIX_FMT_YUV440P12LE", "", TRUE>>,
      <<"YUV440P12BE", "AV_PIX_FMT_YUV440P12BE", "", TRUE>>,
      <<"AYUV64LE", "AV_PIX_FMT_AYUV64LE", "", TRUE>>,
      <<"AYUV64BE", "AV_PIX_FMT_AYUV64BE", "", TRUE>>,
      <<"VIDEOTOOLBOX", "AV_PIX_FMT_VIDEOTOOLBOX", "", TRUE>>,
      <<"XVMC", "AV_PIX_FMT_XVMC", "ff_api_xvmc", FALSE>>,
      <<"RGB32", "AV_PIX_FMT_RGB32", "", TRUE>>,
      <<"RGB32_1", "AV_PIX_FMT_RGB32_1", "", TRUE>>,
      <<"BGR32", "AV_PIX_FMT_BGR32", "", TRUE>>,
      <<"BGR32_1", "AV_PIX_FMT_BGR32_1", "", TRUE>>,
      <<"ZRGB32", "AV_PIX_FMT_0RGB32", "", TRUE>>,
      <<"ZBGR32", "AV_PIX_FMT_0BGR32", "", TRUE>>,
      <<"GRAY16", "AV_PIX_FMT_GRAY16", "", TRUE>>,
      <<"YA16", "AV_PIX_FMT_YA16", "", TRUE>>,
      <<"RGB48", "AV_PIX_FMT_RGB48", "", TRUE>>,
      <<"RGB565", "AV_PIX_FMT_RGB565", "", TRUE>>,
      <<"RGB555", "AV_PIX_FMT_RGB555", "", TRUE>>,
      <<"RGB444", "AV_PIX_FMT_RGB444", "", TRUE>>,
      <<"BGR48", "AV_PIX_FMT_BGR48", "", TRUE>>,
      <<"BGR565", "AV_PIX_FMT_BGR565", "", TRUE>>,
      <<"BGR555", "AV_PIX_FMT_BGR555", "", TRUE>>,
      <<"BGR444", "AV_PIX_FMT_BGR444", "", TRUE>>,
      <<"YUV420P9", "AV_PIX_FMT_YUV420P9", "", TRUE>>,
      <<"YUV422P9", "AV_PIX_FMT_YUV422P9", "", TRUE>>,
      <<"YUV444P9", "AV_PIX_FMT_YUV444P9", "", TRUE>>,
      <<"YUV420P10", "AV_PIX_FMT_YUV420P10", "", TRUE>>,
      <<"YUV422P10", "AV_PIX_FMT_YUV422P10", "", TRUE>>,
      <<"YUV440P10", "AV_PIX_FMT_YUV440P10", "", TRUE>>,
      <<"YUV444P10", "AV_PIX_FMT_YUV444P10", "", TRUE>>,
      <<"YUV420P12", "AV_PIX_FMT_YUV420P12", "", TRUE>>,
      <<"YUV422P12", "AV_PIX_FMT_YUV422P12", "", TRUE>>,
      <<"YUV440P12", "AV_PIX_FMT_YUV440P12", "", TRUE>>,
      <<"YUV444P12", "AV_PIX_FMT_YUV444P12", "", TRUE>>,
      <<"YUV420P14", "AV_PIX_FMT_YUV420P14", "", TRUE>>,
      <<"YUV422P14", "AV_PIX_FMT_YUV422P14", "", TRUE>>,
      <<"YUV444P14", "AV_PIX_FMT_YUV444P14", "", TRUE>>,
      <<"YUV420P16", "AV_PIX_FMT_YUV420P16", "", TRUE>>,
      <<"YUV422P16", "AV_PIX_FMT_YUV422P16", "", TRUE>>,
      <<"YUV444P16", "AV_PIX_FMT_YUV444P16", "", TRUE>>,
      <<"GBRP9", "AV_PIX_FMT_GBRP9", "", TRUE>>,
      <<"GBRP10", "AV_PIX_FMT_GBRP10", "", TRUE>>,
      <<"GBRP12", "AV_PIX_FMT_GBRP12", "", TRUE>>,
      <<"GBRP14", "AV_PIX_FMT_GBRP14", "", TRUE>>,
      <<"GBRP16", "AV_PIX_FMT_GBRP16", "", TRUE>>,
      <<"GBRAP16", "AV_PIX_FMT_GBRAP16", "", TRUE>>,
      <<"BAYER_BGGR16", "AV_PIX_FMT_BAYER_BGGR16", "", TRUE>>,
      <<"BAYER_RGGB16", "AV_PIX_FMT_BAYER_RGGB16", "", TRUE>>,
      <<"BAYER_GBRG16", "AV_PIX_FMT_BAYER_GBRG16", "", TRUE>>,
      <<"BAYER_GRBG16", "AV_PIX_FMT_BAYER_GRBG16", "", TRUE>>,
      <<"YUVA420P9", "AV_PIX_FMT_YUVA420P9", "", TRUE>>,
      <<"YUVA422P9", "AV_PIX_FMT_YUVA422P9", "", TRUE>>,
      <<"YUVA444P9", "AV_PIX_FMT_YUVA444P9", "", TRUE>>,
      <<"YUVA420P10", "AV_PIX_FMT_YUVA420P10", "", TRUE>>,
      <<"YUVA422P10", "AV_PIX_FMT_YUVA422P10", "", TRUE>>,
      <<"YUVA444P10", "AV_PIX_FMT_YUVA444P10", "", TRUE>>,
      <<"YUVA420P16", "AV_PIX_FMT_YUVA420P16", "", TRUE>>,
      <<"YUVA422P16", "AV_PIX_FMT_YUVA422P16", "", TRUE>>,
      <<"YUVA444P16", "AV_PIX_FMT_YUVA444P16", "", TRUE>>,
      <<"XYZ12", "AV_PIX_FMT_XYZ12", "", TRUE>>,
      <<"NV20", "AV_PIX_FMT_NV20", "", TRUE>>,
      <<"AYUV64", "AV_PIX_FMT_AYUV64", "", TRUE>>,
      <<"P010LE", "AV_PIX_FMT_P010LE", "", TRUE>>,
      <<"P010BE", "AV_PIX_FMT_P010BE", "", TRUE>>,
      <<"GBRAP12BE", "AV_PIX_FMT_GBRAP12BE", "", TRUE>>,
      <<"GBRAP12LE", "AV_PIX_FMT_GBRAP12LE", "", TRUE>>,
      <<"GBRAP10LE", "AV_PIX_FMT_GBRAP10LE", "", TRUE>>,
      <<"GBRAP10BE", "AV_PIX_FMT_GBRAP10BE", "", TRUE>>,
      <<"MEDIACODEC", "AV_PIX_FMT_MEDIACODEC", "", TRUE>>,
      <<"GRAY12BE", "AV_PIX_FMT_GRAY12BE", "", TRUE>>,
      <<"GRAY12LE", "AV_PIX_FMT_GRAY12LE", "", TRUE>>,
      <<"GRAY10BE", "AV_PIX_FMT_GRAY10BE", "", TRUE>>,
      <<"GRAY10LE", "AV_PIX_FMT_GRAY10LE", "", TRUE>>,
      <<"P016LE", "AV_PIX_FMT_P016LE", "", TRUE>>,
      <<"P016BE", "AV_PIX_FMT_P016BE", "", TRUE>>,
      <<"D3D11", "AV_PIX_FMT_D3D11", "", TRUE>>,
      <<"GRAY9BE", "AV_PIX_FMT_GRAY9BE", "", TRUE>>,
      <<"GRAY9LE", "AV_PIX_FMT_GRAY9LE", "", TRUE>>,
      <<"GBRPF32BE", "AV_PIX_FMT_GBRPF32BE", "", TRUE>>,
      <<"GBRPF32LE", "AV_PIX_FMT_GBRPF32LE", "", TRUE>>,
      <<"GBRAPF32BE", "AV_PIX_FMT_GBRAPF32BE", "", TRUE>>,
      <<"GBRAPF32LE", "AV_PIX_FMT_GBRAPF32LE", "", TRUE>>,
      <<"DRM_PRIME", "AV_PIX_FMT_DRM_PRIME", "", TRUE>>,
      <<"OPENCL", "AV_PIX_FMT_OPENCL", "ffmpeg_4_0", TRUE>>,
      <<"GRAY14BE", "AV_PIX_FMT_GRAY14BE", "ffmpeg_4_1", TRUE>>,
      <<"GRAY14LE", "AV_PIX_FMT_GRAY14LE", "ffmpeg_4_1", TRUE>>,
      <<"GRAYF32BE", "AV_PIX_FMT_GRAYF32BE", "ffmpeg_4_1", TRUE>>,
      <<"GRAYF32LE", "AV_PIX_FMT_GRAYF32LE", "ffmpeg_4_1", TRUE>>,
      <<"YUVA422P12BE", "AV_PIX_FMT_YUVA422P12BE", "ffmpeg_4_2", TRUE>>,
      <<"YUVA422P12LE", "AV_PIX_FMT_YUVA422P12LE", "ffmpeg_4_2", TRUE>>,
      <<"YUVA444P12BE", "AV_PIX_FMT_YUVA444P12BE", "ffmpeg_4_2", TRUE>>,
      <<"YUVA444P12LE", "AV_PIX_FMT_YUVA444P12LE", "ffmpeg_4_2", TRUE>>,
      <<"NV24", "AV_PIX_FMT_NV24", "ffmpeg_4_2", TRUE>>,
      <<"NV42", "AV_PIX_FMT_NV42", "ffmpeg_4_2", TRUE>>,
      <<"VULKAN", "AV_PIX_FMT_VULKAN", "ffmpeg_4_3", TRUE>>,
      <<"Y210BE", "AV_PIX_FMT_Y210BE", "ffmpeg_4_3", TRUE>>,
      <<"Y210LE", "AV_PIX_FMT_Y210LE", "ffmpeg_4_3", TRUE>>,
      <<"X2RGB10LE", "AV_PIX_FMT_X2RGB10LE", "ffmpeg_4_4", TRUE>>,
      <<"X2RGB10BE", "AV_PIX_FMT_X2RGB10BE", "ffmpeg_4_4", TRUE>>,
      <<"RPI", "AV_PIX_FMT_RPI", "rpi", TRUE>>,
      <<"SAND128", "AV_PIX_FMT_SAND128", "rpi", TRUE>>,
      <<"SAND64_10", "AV_PIX_FMT_SAND64_10", "rpi", TRUE>>,
      <<"SAND64_16", "AV_PIX_FMT_SAND64_16", "rpi", TRUE>>,
      <<"RPI4_8", "AV_PIX_FMT_RPI4_8", "rpi", TRUE>>,
      <<"RPI4_10", "AV_PIX_FMT_RPI4_10", "rpi", TRUE>>
   >>

\* src/codec/encoder/decision.rs: the variants of enum Decision
DecisionVariants ==
   <<
      <<"Simple", "Simple", "", TRUE>>,
      <<"Bits", "Bits", "", TRUE>>,
      <<"RateDistortion", "RateDistortion", "", TRUE>>
   >>

\* src/codec/encoder/decision.rs: the arms of impl From<c_int> for Decision;
\* the pattern "_" is the wildcard arm
DecisionFromArms ==
   <<
      <<"FF_MB_DECISION_SIMPLE", "Simple", "", TRUE>>,
      <<"FF_MB_DECISION_BITS", "Bits", "", TRUE>>,
      <<"FF_MB_DECISION_RD", "RateDistortion", "", TRUE>>,
      <<"_", "Simple", "", TRUE>>
   >>

\* src/codec/encoder/decision.rs: the arms of impl From<Decision> for c_int
DecisionToArms ==
   <<
      <<"Simple", "FF_MB_DECISION_SIMPLE", "", TRUE>>,
      <<"Bits", "FF_MB_DECISION_BITS", "", TRUE>>,
      <<"RateDistortion", "FF_MB_DECISION_RD", "", TRUE>>
   >>

\* src/util/format/pixel.rs: the associated consts of impl Pixel, each with
\* the variant it stands for and its feature gate
PixelConsts ==
   <<
      <<"Y400A", "YA8", "", TRUE>>,
      <<"GRAY8A", "YA8", "", TRUE>>,
      <<"GBR24P", "GBRP", "", TRUE>>,
      <<"XVMC", "XVMC_MPEG2_IDCT", "ff_api_xvmc", TRUE>>
   >>

\* src/util/color/primaries.rs: the associated const of impl Primaries
PrimariesConsts ==
   <<
      <<"JEDEC_P22", "EBU3213", "ffmpeg_4_3", TRUE>>
   >>

\* src/util/color/space.rs: the associated const of impl Space
SpaceConsts ==
   <<
      <<"YCOCG", "YCGCO", "", TRUE>>
   >>

(***************************************************************************)
(* The native-endian names of AVPixelFormat (AV_PIX_FMT_RGB32, ...) are    *)
(* not values of their own: the native headers define each as the          *)
(* big-endian or the little-endian constant, by the target's byte order.   *)
(* Each row is the name, what it is on a big-endian target and what it is  *)
(* on a little-endian target.                                              *)
(***************************************************************************)
PixelNativeEndian ==
   <<
      <<"AV_PIX_FMT_RGB32", "AV_PIX_FMT_ARGB", "AV_PIX_FMT_BGRA">>,
      <<"AV_PIX_FMT_RGB32_1", "AV_PIX_FMT_RGBA", "AV_PIX_FMT_ABGR">>,
      <<"AV_PIX_FMT_BGR32", "AV_PIX_FMT_ABGR", "AV_PIX_FMT_RGBA">>,
      <<"AV_PIX_FMT_BGR32_1", "AV_PIX_FMT_BGRA", "AV_PIX_FMT_ARGB">>,
      <<"AV_PIX_FMT_0RGB32", "AV_PIX_FMT_0RGB", "AV_PIX_FMT_BGR0">>,
      <<"AV_PIX_FMT_0BGR32", "AV_PIX_FMT_0BGR", "AV_PIX_FMT_RGB0">>,
      <<"AV_PIX_FMT_GRAY16", "AV_PIX_FMT_GRAY16BE", "AV_PIX_FMT_GRAY16LE">>,
      <<"AV_PIX_FMT_YA16", "AV_PIX_FMT_YA16BE", "AV_PIX_FMT_YA16LE">>,
      <<"AV_PIX_FMT_RGB48", "AV_PIX_FMT_RGB48BE", "AV_PIX_FMT_RGB48LE">>,
      <<"AV_PIX_FMT_RGB565", "AV_PIX_FMT_RGB565BE", "AV_PIX_FMT_RGB565LE">>,
      <<"AV_PIX_FMT_RGB555", "AV_PIX_FMT_RGB555BE", "AV_PIX_FMT_RGB555LE">>,
      <<"AV_PIX_FMT_RGB444", "AV_PIX_FMT_RGB444BE", "AV_PIX_FMT_RGB444LE">>,
      <<"AV_PIX_FMT_BGR48", "AV_PIX_FMT_BGR48BE", "AV_PIX_FMT_BGR48LE">>,
      <<"AV_PIX_FMT_BGR565", "AV_PIX_FMT_BGR565BE", "AV_PIX_FMT_BGR565LE">>,
      <<"AV_PIX_FMT_BGR555", "AV_PIX_FMT_BGR555BE", "AV_PIX_FMT_BGR555LE">>,
      <<"AV_PIX_FMT_BGR444", "AV_PIX_FMT_BGR444BE", "AV_PIX_FMT_BGR444LE">>,
      <<"AV_PIX_FMT_YUV420P9", "AV_PIX_FMT_YUV420P9BE", "AV_PIX_FMT_YUV420P9LE">>,
      <<"AV_PIX_FMT_YUV422P9", "AV_PIX_FMT_YUV422P9BE", "AV_PIX_FMT_YUV422P9LE">>,
      <<"AV_PIX_FMT_YUV444P9", "AV_PIX_FMT_YUV444P9BE", "AV_PIX_FMT_YUV444P9LE">>,
      <<"AV_PIX_FMT_YUV420P10", "AV_PIX_FMT_YUV420P10BE", "AV_PIX_FMT_YUV420P10LE">>,
      <<"AV_PIX_FMT_YUV422P10", "AV_PIX_FMT_YUV422P10BE", "AV_PIX_FMT_YUV422P10LE">>,
      <<"AV_PIX_FMT_YUV440P10", "AV_PIX_FMT_YUV440P10BE", "AV_PIX_FMT_YUV440P10LE">>,
      <<"AV_PIX_FMT_YUV444P10", "AV_PIX_FMT_YUV444P10BE", "AV_PIX_FMT_YUV444P10LE">>,
      <<"AV_PIX_FMT_YUV420P12", "AV_PIX_FMT_YUV420P12BE", "AV_PIX_FMT_YUV420P12LE">>,
      <<"AV_PIX_FMT_YUV422P12", "AV_PIX_FMT_YUV422P12BE", "AV_PIX_FMT_YUV422P12LE">>,
      <<"AV_PIX_FMT_YUV440P12", "AV_PIX_FMT_YUV440P12BE", "AV_PIX_FMT_YUV440P12LE">>,
      <<"AV_PIX_FMT_YUV444P12", "AV_PIX_FMT_YUV444P12BE", "AV_PIX_FMT_YUV444P12LE">>,
      <<"AV_PIX_FMT_YUV420P14", "AV_PIX_FMT_YUV420P14BE", "AV_PIX_FMT_YUV420P14LE">>,
      <<"AV_PIX_FMT_YUV422P14", "AV_PIX_FMT_YUV422P14BE", "AV_PIX_FMT_YUV422P14LE">>,
      <<"AV_PIX_FMT_YUV444P14", "AV_PIX_FMT_YUV444P14BE", "AV_PIX_FMT_YUV444P14LE">>,
      <<"AV_PIX_FMT_YUV420P16", "AV_PIX_FMT_YUV420P16BE", "AV_PIX_FMT_YUV420P16LE">>,
      <<"AV_PIX_FMT_YUV422P16", "AV_PIX_FMT_YUV422P16BE", "AV_PIX_FMT_YUV422P16LE">>,
      <<"AV_PIX_FMT_YUV444P16", "AV_PIX_FMT_YUV444P16BE", "AV_PIX_FMT_YUV444P16LE">>,
      <<"AV_PIX_FMT_GBRP9", "AV_PIX_FMT_GBRP9BE", "AV_PIX_FMT_GBRP9LE">>,
      <<"AV_PIX_FMT_GBRP10", "AV_PIX_FMT_GBRP10BE", "AV_PIX_FMT_GBRP10LE">>,
      <<"AV_PIX_FMT_GBRP12", "AV_PIX_FMT_GBRP12BE", "AV_PIX_FMT_GBRP12LE">>,
      <<"AV_PIX_FMT_GBRP14", "AV_PIX_FMT_GBRP14BE", "AV_PIX_FMT_GBRP14LE">>,
      <<"AV_PIX_FMT_GBRP16", "AV_PIX_FMT_GBRP16BE", "AV_PIX_FMT_GBRP16LE">>,
      <<"AV_PIX_FMT_GBRAP16", "AV_PIX_FMT_GBRAP16BE", "AV_PIX_FMT_GBRAP16LE">>,
      <<"AV_PIX_FMT_BAYER_BGGR16", "AV_PIX_FMT_BAYER_BGGR16BE", "AV_PIX_FMT_BAYER_BGGR16LE">>,
      <<"AV_PIX_FMT_BAYER_RGGB16", "AV_PIX_FMT_BAYER_RGGB16BE", "AV_PIX_FMT_BAYER_RGGB16LE">>,
      <<"AV_PIX_FMT_BAYER_GBRG16", "AV_PIX_FMT_BAYER_GBRG16BE", "AV_PIX_FMT_BAYER_GBRG16LE">>,
      <<"AV_PIX_FMT_BAYER_GRBG16", "AV_PIX_FMT_BAYER_GRBG16BE", "AV_PIX_FMT_BAYER_GRBG16LE">>,
      <<"AV_PIX_FMT_YUVA420P9", "AV_PIX_FMT_YUVA420P9BE", "AV_PIX_FMT_YUVA420P9LE">>,
      <<"AV_PIX_FMT_YUVA422P9", "AV_PIX_FMT_YUVA422P9BE", "AV_PIX_FMT_YUVA422P9LE">>,
      <<"AV_PIX_FMT_YUVA444P9", "AV_PIX_FMT_YUVA444P9BE", "AV_PIX_FMT_YUVA444P9LE">>,
      <<"AV_PIX_FMT_YUVA420P10", "AV_PIX_FMT_YUVA420P10BE", "AV_PIX_FMT_YUVA420P10LE">>,
      <<"AV_PIX_FMT_YUVA422P10", "AV_PIX_FMT_YUVA422P10BE", "AV_PIX_FMT_YUVA422P10LE">>,
      <<"AV_PIX_FMT_YUVA444P10", "AV_PIX_FMT_YUVA444P10BE", "AV_PIX_FMT_YUVA444P10LE">>,
      <<"AV_PIX_FMT_YUVA420P16", "AV_PIX_FMT_YUVA420P16BE", "AV_PIX_FMT_YUVA420P16LE">>,
      <<"AV_PIX_FMT_YUVA422P16", "AV_PIX_FMT_YUVA422P16BE", "AV_PIX_FMT_YUVA422P16LE">>,
      <<"AV_PIX_FMT_YUVA444P16", "AV_PIX_FMT_YUVA444P16BE", "AV_PIX_FMT_YUVA444P16LE">>,
      <<"AV_PIX_FMT_XYZ12", "AV_PIX_FMT_XYZ12BE", "AV_PIX_FMT_XYZ12LE">>,
      <<"AV_PIX_FMT_NV20", "AV_PIX_FMT_NV20BE", "AV_PIX_FMT_NV20LE">>,
      <<"AV_PIX_FMT_AYUV64", "AV_PIX_FMT_AYUV64BE", "AV_PIX_FMT_AYUV64LE">>
   >>

\* The AVPixelFormat value the name n stands for on a target that is
\* big-endian or not.
NativeEndian(n, big) ==
   LET hits == {i \in 1..Len(PixelNativeEndian) : PixelNativeEndian[i][1] = n}
   IN  IF hits = {} THEN n
       ELSE LET row == PixelNativeEndian[CHOOSE i \in hits : TRUE]
            IN  IF big THEN row[2] ELSE row[3]

(***************************************************************************)
(* Rust's match over a table of arms.                                      *)
(***************************************************************************)

\* What a match yields when no compiled-in arm takes the value.
NoArm == "<no arm>"

\* The outcome of undefined behaviour that is not the result of any arm.
Trap == "<trap>"

\* #[cfg(feature = ..)] / #[cfg(not(feature = ..))] on an arm or a variant
Active(F, a) == a[3] = "" \/ ((a[3] \in F) <=> a[4])

ActiveIndices(arms, F) == {i \in 1..Len(arms) : Active(F, arms[i])}

\* match x { arms }: the first compiled-in arm whose pattern is x (or "_")
MatchArm(arms, F, x) ==
   LET hits == {i \in ActiveIndices(arms, F) :
                   arms[i][1] = x \/ arms[i][1] = "_"}
   IN  IF hits = {} THEN NoArm
       ELSE arms[CHOOSE i \in hits : \A j \in hits : i <= j][2]

\* The patterns and the results of the compiled-in arms of a table.
Patterns(arms, F) == {arms[i][1] : i \in ActiveIndices(arms, F)} \ {"_"}

Results(arms, F) == {arms[i][2] : i \in ActiveIndices(arms, F)}

(***************************************************************************)
(* The conversions, one pair per domain.                                   *)
(***************************************************************************)

PrimariesFrom(F, value) == MatchArm(PrimariesFromArms, F, value)

\* A to_native that sends Reserved0 where Unspecified goes.
PrimariesToMut(F, value) ==
   IF value = "Reserved0" THEN "AVCOL_PRI_UNSPECIFIED"
   ELSE MatchArm(PrimariesToArms, F, value)

PrimariesTo(F, value) == MatchArm(PrimariesToArms, F, value)

\* A from_native that takes AVCOL_RANGE_NB for a range of its own.
RangeFromMut(F, value) ==
   IF value = "AVCOL_RANGE_NB" THEN "MPEG"
   ELSE MatchArm(RangeFromArms, F, value)

RangeFrom(F, value) == MatchArm(RangeFromArms, F, value)

RangeTo(F, value) == MatchArm(RangeToArms, F, value)

SpaceFrom(F, value) == MatchArm(SpaceFromArms, F, value)

SpaceTo(F, value) == MatchArm(SpaceToArms, F, value)

TransferCharacteristicFrom(F, value) ==
   MatchArm(TransferCharacteristicFromArms, F, value)

TransferCharacteristicTo(F, value) ==
   MatchArm(TransferCharacteristicToArms, F, value)

PacketTypeFrom(F, value) == MatchArm(PacketTypeFromArms, F, value)

\* A to_native that folds DataNb into the first constant.
PacketTypeToMut(F, value) ==
   IF value = "DataNb" THEN PacketTypeToArms[1][2]
   ELSE MatchArm(PacketTypeToArms, F, value)

PacketTypeTo(F, value) == MatchArm(PacketTypeToArms, F, value)

FrameTypeFrom(F, value) == MatchArm(FrameTypeFromArms, F, value)

\* A to_native whose arms ignore their feature gates.
FrameTypeToMut(F, value) ==
   MatchArm(FrameTypeToArms,
            {FrameTypeToArms[i][3] : i \in 1..Len(FrameTypeToArms)}, value)

FrameTypeTo(F, value) == MatchArm(FrameTypeToArms, F, value)

RoundingFrom(F, value) == MatchArm(RoundingFromArms, F, value)

RoundingTo(F, value) == MatchArm(RoundingToArms, F, value)

OptionTypeFrom(F, value) == MatchArm(OptionTypeFromArms, F, value)

OptionTypeTo(F, value) == MatchArm(OptionTypeToArms, F, value)

\* A from without its wildcard arm.
DecisionFromMut(F, value) ==
   MatchArm(SubSeq(DecisionFromArms, 1, 3), F, value)

DecisionFrom(F, value) == MatchArm(DecisionFromArms, F, value)

DecisionTo(F, value) == MatchArm(DecisionToArms, F, value)

\* A from_native that gives the native-endian name for BGRA.
PixelFromMut(F, value) ==
   IF value = "AV_PIX_FMT_BGRA" THEN "RGB32"
   ELSE MatchArm(PixelFromArms, F, value)

PixelFrom(F, value) == MatchArm(PixelFromArms, F, value)

\* A to_native whose arms for the two gated VAAPI formats are swapped.
PixelToMut(F, value) ==
   CASE value = "VAAPI_MOCO" -> MatchArm(PixelToArms, F, "VAAPI_IDCT")
     [] value = "VAAPI_IDCT" -> MatchArm(PixelToArms, F, "VAAPI_MOCO")
     [] OTHER -> MatchArm(PixelToArms, F, value)

PixelTo(F, value) == MatchArm(PixelToArms, F, value)

ColorDomains == {"Primaries", "Range", "Space", "TransferCharacteristic"}

SmallDomains ==
   ColorDomains \cup
      {"PacketType", "FrameType", "Rounding", "OptionType", "Decision"}

Domains == SmallDomains \cup {"Pixel"}

\* from_native of domain d under profile F
FromNative(d, F, n) ==
   CASE d = "Primaries" -> PrimariesFrom(F, n)
     [] d = "Range" -> RangeFrom(F, n)
     [] d = "Space" -> SpaceFrom(F, n)
     [] d = "TransferCharacteristic" -> TransferCharacteristicFrom(F, n)
     [] d = "PacketType" -> PacketTypeFrom(F, n)
     [] d = "FrameType" -> FrameTypeFrom(F, n)
     [] d = "Rounding" -> RoundingFrom(F, n)
     [] d = "OptionType" -> OptionTypeFrom(F, n)
     [] d = "Decision" -> DecisionFrom(F, n)
     [] d = "Pixel" -> PixelFrom(F, n)

\* to_native of domain d under profile F
ToNative(d, F, v) ==
   CASE d = "Primaries" -> PrimariesTo(F, v)
     [] d = "Range" -> RangeTo(F, v)
     [] d = "Space" -> SpaceTo(F, v)
     [] d = "TransferCharacteristic" -> TransferCharacteristicTo(F, v)
     [] d = "PacketType" -> PacketTypeTo(F, v)
     [] d = "FrameType" -> FrameTypeTo(F, v)
     [] d = "Rounding" -> RoundingTo(F, v)
     [] d = "OptionType" -> OptionTypeTo(F, v)
     [] d = "Decision" -> DecisionTo(F, v)
     [] d = "Pixel" -> PixelTo(F, v)

FromArmsOf(d) ==
   CASE d = "Primaries" -> PrimariesFromArms
     [] d = "Range" -> RangeFromArms
     [] d = "Space" -> SpaceFromArms
     [] d = "TransferCharacteristic" -> TransferCharacteristicFromArms
     [] d = "PacketType" -> PacketTypeFromArms
     [] d = "FrameType" -> FrameTypeFromArms
     [] d = "Rounding" -> RoundingFromArms
     [] d = "OptionType" -> OptionTypeFromArms
     [] d = "Decision" -> DecisionFromArms
     [] d = "Pixel" -> PixelFromArms

VariantsOf(d) ==
   CASE d = "Primaries" -> PrimariesVariants
     [] d = "Range" -> RangeVariants
     [] d = "Space" -> SpaceVariants
     [] d = "TransferCharacteristic" -> TransferCharacteristicVariants
     [] d = "PacketType" -> PacketTypeVariants
     [] d = "FrameType" -> FrameTypeVariants
     [] d = "Rounding" -> RoundingVariants
     [] d = "OptionType" -> OptionTypeVariants
     [] d = "Decision" -> DecisionVariants
     [] d = "Pixel" -> PixelVariants

ConstsOf(d) ==
   CASE d = "Primaries" -> PrimariesConsts
     [] d = "Space" -> SpaceConsts
     [] d = "Pixel" -> PixelConsts
     [] OTHER -> <<>>

\* The names a program may write after the enum's name: those of the
\* variants and of the associated consts, whatever their gates.
PathNames(d) ==
   {VariantsOf(d)[i][1] : i \in 1..Len(VariantsOf(d))}
      \cup {ConstsOf(d)[i][1] : i \in 1..Len(ConstsOf(d))}

\* What the path Enum::name is under profile F: the variant of that name if
\* it is compiled in, else the value of the const of that name, else
\* nothing (the path does not compile).
Resolve(d, F, name) ==
   IF name \in Results(VariantsOf(d), F) THEN name
   ELSE MatchArm(ConstsOf(d), F, name)

\* The native constants from_native of d names under profile F.
KnownNative(d, F) == Patterns(FromArmsOf(d), F)

\* Raw 32-bit values that are none of the native constants of any domain.
UnknownNative == {"-2147483648", "-1000", "2147483647"}

(***************************************************************************)
(* What from_native can produce for n.  The native types other than        *)
(* Decision's c_int are Rust enums matched without a wildcard arm: a value *)
(* that no arm takes is not a value of the enum, the match on it is        *)
(* undefined behaviour, and the build may run any arm or none.             *)
(***************************************************************************)
FromOutcomes(d, F, n) ==
   LET r == FromNative(d, F, n)
   IN  IF r = NoArm THEN Results(FromArmsOf(d), F) \cup {Trap} ELSE {r}

(***************************************************************************)
(* name(): the native name lookups (av_color_primaries_name, ...) belong   *)
(* to the native library; their answer is an input, a null pointer or a    *)
(* string.                                                                 *)
(***************************************************************************)
NullPtr == [null |-> TRUE, str |-> ""]

StrPtr(s) == [null |-> FALSE, str |-> s]

\* The answers a native name lookup may give.
NameAnswers == {NullPtr, StrPtr(""), StrPtr("reserved"), StrPtr("bt709")}

None == [tag |-> "None", val |-> ""]

Some(s) == [tag |-> "Some", val |-> s]

Str(s) == [tag |-> "Str", val |-> s]

Undefined == [tag |-> "Undefined", val |-> ""]

NotCalled == [consulted |-> FALSE, arg |-> "", ret |-> None]

\* ptr.as_ref().map(|ptr| from_utf8_unchecked(CStr::from_ptr(ptr).to_bytes()))
PtrToOption(ans) == IF ans.null THEN None ELSE Some(ans.str)

\* Primaries::name; ans is the answer of av_color_primaries_name if asked
PrimariesName(F, self, ans) ==
   IF self = "Unspecified" THEN NotCalled
   ELSE [consulted |-> TRUE, arg |-> PrimariesTo(F, self),
         ret |-> PtrToOption(ans)]

\* A name() that asks the native lookup for Unspecified as well.
RangeNameMut(F, self, ans) ==
   [consulted |-> TRUE, arg |-> RangeTo(F, self), ret |-> PtrToOption(ans)]

\* Range::name; ans is the answer of av_color_range_name if asked
RangeName(F, self, ans) ==
   IF self = "Unspecified" THEN NotCalled
   ELSE [consulted |-> TRUE, arg |-> RangeTo(F, self),
         ret |-> PtrToOption(ans)]

\* Space::name; ans is the answer of av_color_space_name if asked
SpaceName(F, self, ans) ==
   IF self = "Unspecified" THEN NotCalled
   ELSE [consulted |-> TRUE, arg |-> SpaceTo(F, self),
         ret |-> PtrToOption(ans)]

\* TransferCharacteristic::name; ans is the answer of av_color_transfer_name
TransferCharacteristicName(F, self, ans) ==
   IF self = "Unspecified" THEN NotCalled
   ELSE [consulted |-> TRUE, arg |-> TransferCharacteristicTo(F, self),
         ret |-> PtrToOption(ans)]

\* frame side-data Type::name returns &'static str: the lookup is always
\* made and CStr::from_ptr reads through its answer without a null check
\* (undefined behaviour on a null answer)
FrameTypeName(F, self, ans) ==
   [consulted |-> TRUE, arg |-> FrameTypeTo(F, self),
    ret |-> IF ans.null THEN Undefined ELSE Str(ans.str)]

NameDomains == ColorDomains \cup {"FrameType"}

NameOf(d, F, self, ans) ==
   CASE d = "Primaries" -> PrimariesName(F, self, ans)
     [] d = "Range" -> RangeName(F, self, ans)
     [] d = "Space" -> SpaceName(F, self, ans)
     [] d = "TransferCharacteristic" ->
           TransferCharacteristicName(F, self, ans)
     [] d = "FrameType" -> FrameTypeName(F, self, ans)

(***************************************************************************)
(* The profile iterator (codec.rs).  The native profile array is a         *)
(* sequence of the profile fields of its AVProfile entries; a pointer into *)
(* it is the index of an entry, the array starting at index 1.             *)
(***************************************************************************)

\* FF_PROFILE_UNKNOWN of the native headers, the terminator of the array
FF_PROFILE_UNKNOWN == -99

\* The codec ids and the profile numbers the arrays are built from.
Ids == {"H264", "VP9"}

ProfileValues == {66, 77}

\* The longest native profile array, terminator included.
MaxProfiles == 4

\* The most calls of next() on one iterator.
MaxCalls == 6

NoIter == [id |-> "", ptr |-> 0]

\* Profile::from((id, profile)): the entry read, tagged with the codec id
ProfileFrom(id, profile) == <<id, profile>>

\* A constructor that starts one entry into the array.
ProfileIterNewMut(id, ptr) == [id |-> id, ptr |-> ptr + 1]

\* ProfileIter::new
ProfileIterNew(id, ptr) == [id |-> id, ptr |-> ptr]

\* A next() that never moves its cursor.
ProfileIterNextStuck(self, mem) ==
   IF mem[self.ptr] = FF_PROFILE_UNKNOWN
   THEN [ret |-> None, self |-> self]
   ELSE [ret |-> Some(ProfileFrom(self.id, mem[self.ptr])), self |-> self]

\* A next() that steps over the terminator it has seen.
ProfileIterNextMut(self, mem) ==
   IF mem[self.ptr] = FF_PROFILE_UNKNOWN
   THEN [ret |-> None, self |-> [self EXCEPT !.ptr = self.ptr + 1]]
   ELSE [ret |-> Some(ProfileFrom(self.id, mem[self.ptr])),
         self |-> [self EXCEPT !.ptr = self.ptr + 1]]

\* Iterator::next for ProfileIter on the array mem: the value returned and
\* the iterator afterwards
ProfileIterNext(self, mem) ==
   IF mem[self.ptr] = FF_PROFILE_UNKNOWN
   THEN [ret |-> None, self |-> self]
   ELSE [ret |-> Some(ProfileFrom(self.id, mem[self.ptr])),
         self |-> [self EXCEPT !.ptr = self.ptr + 1]]

\* The index of the first terminator of mem (Len(mem) + 1 if it has none).
FirstSentinel(mem) ==
   IF \E i \in 1..Len(mem) : mem[i] = FF_PROFILE_UNKNOWN
   THEN CHOOSE i \in 1..Len(mem) :
           /\ mem[i] = FF_PROFILE_UNKNOWN
           /\ \A j \in 1..(i - 1) : mem[j] # FF_PROFILE_UNKNOWN
   ELSE Len(mem) + 1

\* Memory whose read traps.
Unreadable == <<>>

\* What a read of entry ptr can see: the array, or, outside of it, any
\* value in that place or a trap.
MemoryAt(mem, ptr) ==
   IF ptr \in 1..Len(mem) THEN {mem}
   ELSE {[i \in {ptr} |-> x] : x \in ProfileValues \cup {FF_PROFILE_UNKNOWN}}
           \cup {Unreadable}

SeqsUpTo(S, n) == UNION {[1..k -> S] : k \in 1..n}

\* The arrays the native library hands out: terminated by the sentinel
\* (what follows the first terminator is memory the iterator must not use).
ProfileArrays ==
   {m \in SeqsUpTo(ProfileValues \cup {FF_PROFILE_UNKNOWN}, MaxProfiles) :
       \E i \in 1..Len(m) : m[i] = FF_PROFILE_UNKNOWN}

(***************************************************************************)
(* Input::extensions and Input::mime_types (input.rs).  A native string is *)
(* a pointer, null or to a sequence of bytes that holds a NUL.             *)
(***************************************************************************)

\* The terminator of a C string, and the delimiter ','.
NUL == 0

Comma == 44

\* The longest native string buffer, terminator included.
MaxMem == 4

\* The bytes the buffers are built from: 'a', ',' and NUL.
Bytes == {97, Comma, NUL}

NullStr == [null |-> TRUE, mem |-> <<>>]

\* "mp4,m4a,m4v" and its terminator
Mp4Example == <<109, 112, 52, 44, 109, 52, 97, 44, 109, 52, 118, 0>>

CStrings ==
   {m \in SeqsUpTo(Bytes, MaxMem) : \E i \in 1..Len(m) : m[i] = NUL}
      \cup {Mp4Example}

NativeStrings == {NullStr} \cup {[null |-> FALSE, mem |-> m] : m \in CStrings}

\* CStr::from_ptr(ptr).to_bytes(): the bytes before the first NUL
CStrToBytes(mem) ==
   LET end == CHOOSE i \in 1..Len(mem) :
                 /\ mem[i] = NUL
                 /\ \A j \in 1..(i - 1) : mem[j] # NUL
   IN  SubSeq(mem, 1, end - 1)

\* str::split(','): the pieces between the delimiters, from left to right
RECURSIVE Split(_)
Split(s) ==
   IF \A i \in 1..Len(s) : s[i] # Comma THEN <<s>>
   ELSE LET c == CHOOSE i \in 1..Len(s) :
                    /\ s[i] = Comma
                    /\ \A j \in 1..(i - 1) : s[j] # Comma
        IN  <<SubSeq(s, 1, c - 1)>> \o Split(SubSeq(s, c + 1, Len(s)))

\* An extensions() that gives no entry for an empty string.
ExtensionsMut(self) ==
   IF self.extensions.null THEN <<>>
   ELSE IF CStrToBytes(self.extensions.mem) = <<>> THEN <<>>
   ELSE Split(CStrToBytes(self.extensions.mem))

\* Input::extensions on the native AVInputFormat self
Extensions(self) ==
   IF self.extensions.null THEN <<>>
   ELSE Split(CStrToBytes(self.extensions.mem))

\* A mime_types() that splits the empty string for a null pointer.
MimeTypesMut(self) ==
   IF self.mime_type.null THEN Split(<<>>)
   ELSE Split(CStrToBytes(self.mime_type.mem))

\* Input::mime_types on the native AVInputFormat self
MimeTypes(self) ==
   IF self.mime_type.null THEN <<>>
   ELSE Split(CStrToBytes(self.mime_type.mem))

(***************************************************************************)
(* The borrowed views.  A native structure lives at an address of the      *)
(* native heap; a wrapper holds the address it was given.                  *)
(***************************************************************************)

\* The addresses of native structures.
Ptrs == {1, 2}

NoView == [type |-> "", ptr |-> 0]

NoCall == [op |-> "", ret |-> None]

\* The base of the 16-bit limbs a machine word is written in, least
\* significant limb first.
Limb == 65536

\* x as usize, x a c_int: sign extension to 64 bits
AsUsize(x) ==
   <<x % Limb, (x \div Limb) % Limb,
     IF x < 0 THEN Limb - 1 ELSE 0, IF x < 0 THEN Limb - 1 ELSE 0>>

\* The longest backing allocation of a side-data buffer.
MaxAlloc == 3

\* The bytes the side-data buffers are built from.
SideBytes == {0, 255}

Slice(bytes) == [tag |-> "Slice", val |-> bytes]

\* A slice that reaches outside of its allocation: undefined behaviour.
OutOfBounds == [tag |-> "Undefined", val |-> <<>>]

\* slice::from_raw_parts(data, len), data the index of a byte of alloc (the
\* allocation starting at index 1) and len a usize
FromRawParts(alloc, data, len) ==
   IF /\ len[3] = 0
      /\ len[4] = 0
      /\ len[1] + Limb * len[2] <= Len(alloc) - data + 1
   THEN Slice(SubSeq(alloc, data, data + len[1] + Limb * len[2] - 1))
   ELSE OutOfBounds

\* The native AVPacketSideData and AVFrameSideData: the data pointer is an
\* index into the backing allocation, one past its end included, and the
\* size field is a c_int.
SideDataStructs(struct) ==
   {[struct |-> struct, alloc |-> a, data |-> d, size |-> s] :
       a \in SeqsUpTo(SideBytes, MaxAlloc),
       d \in 1..(MaxAlloc + 1), s \in (0 - 1)..MaxAlloc}

\* packet SideData::wrap and SideData::data
PacketSideDataWrap(ptr) == [type |-> "packet::SideData", ptr |-> ptr]

PacketSideDataData(self, mem) ==
   FromRawParts(mem[self.ptr].alloc, mem[self.ptr].data,
                AsUsize(mem[self.ptr].size))

\* frame SideData::wrap and SideData::data
FrameSideDataWrap(ptr) == [type |-> "frame::SideData", ptr |-> ptr]

\* A data() that takes the rest of the allocation for the buffer.
FrameSideDataDataMut(self, mem) ==
   FromRawParts(mem[self.ptr].alloc, mem[self.ptr].data,
                AsUsize(Len(mem[self.ptr].alloc) - mem[self.ptr].data + 1))

FrameSideDataData(self, mem) ==
   FromRawParts(mem[self.ptr].alloc, mem[self.ptr].data,
                AsUsize(mem[self.ptr].size))

(***************************************************************************)
(* Codec (codec.rs).  media::Type, Video and Audio are defined outside of  *)
(* the files at hand and follow the specification.                         *)
(***************************************************************************)

\* AVMediaType of the native headers.
MediaTypes ==
   {"AVMEDIA_TYPE_UNKNOWN", "AVMEDIA_TYPE_VIDEO", "AVMEDIA_TYPE_AUDIO",
    "AVMEDIA_TYPE_DATA", "AVMEDIA_TYPE_SUBTITLE", "AVMEDIA_TYPE_ATTACHMENT",
    "AVMEDIA_TYPE_NB"}

\* media::Type::from(AVMediaType): the enum bridge of the media types
MediaTypeFrom(t) ==
   CASE t = "AVMEDIA_TYPE_VIDEO" -> "Video"
     [] t = "AVMEDIA_TYPE_AUDIO" -> "Audio"
     [] t = "AVMEDIA_TYPE_DATA" -> "Data"
     [] t = "AVMEDIA_TYPE_SUBTITLE" -> "Subtitle"
     [] t = "AVMEDIA_TYPE_ATTACHMENT" -> "Attachment"
     [] OTHER -> "Unknown"

\* The native AVCodec of media type t.
AVCodec(t) ==
   [struct |-> "AVCodec", name |-> <<104, 0>>, long_name |-> NullStr,
    type_ |-> t, id |-> "AV_CODEC_ID_H264", capabilities |-> 0]

Ok(v) == [tag |-> "Ok", val |-> v]

Err(e) == [tag |-> "Err", val |-> e]

\* Error::InvalidData
InvalidData == [error |-> "InvalidData"]

\* Codec::wrap
CodecWrap(ptr) == [type |-> "Codec", ptr |-> ptr]

\* Video::new(codec) and Audio::new(codec): the narrowed views of a codec
VideoNew(codec) == [type |-> "codec::Video", codec |-> codec]

AudioNew(codec) == [type |-> "codec::Audio", codec |-> codec]

\* Codec::medium
CodecMedium(self, mem) == MediaTypeFrom(mem[self.ptr].type_)

\* Codec::video
CodecVideo(self, mem) ==
   IF CodecMedium(self, mem) = "Video" THEN Ok(VideoNew(self))
   ELSE Err(InvalidData)

\* An is_video that takes every medium but Audio for video.
CodecIsVideoMut(self, mem) == CodecMedium(self, mem) # "Audio"

\* Codec::is_video
CodecIsVideo(self, mem) == CodecMedium(self, mem) = "Video"

\* Codec::is_audio
CodecIsAudio(self, mem) == CodecMedium(self, mem) = "Audio"

\* An audio() that hands out a view whatever the medium.
CodecAudioMut(self, mem) == Ok(AudioNew(self))

\* Codec::audio
CodecAudio(self, mem) ==
   IF CodecMedium(self, mem) = "Audio" THEN Ok(AudioNew(self))
   ELSE Err(InvalidData)

(***************************************************************************)
(* Rect and its sub-views (rect.rs).  The subtitle Type bridge and Flags   *)
(* are defined outside of the files at hand and follow the specification.  *)
(***************************************************************************)

\* AVSubtitleType of the native headers.
SubtitleTypes ==
   {"SUBTITLE_NONE", "SUBTITLE_BITMAP", "SUBTITLE_TEXT", "SUBTITLE_ASS"}

\* subtitle Type::from(AVSubtitleType): the enum bridge of the rect types
SubtitleTypeFrom(t) ==
   CASE t = "SUBTITLE_NONE" -> "None"
     [] t = "SUBTITLE_BITMAP" -> "Bitmap"
     [] t = "SUBTITLE_TEXT" -> "Text"
     [] t = "SUBTITLE_ASS" -> "Ass"

\* The values of the flags field of an AVSubtitleRect: bit 0 is
\* AV_SUBTITLE_FLAG_FORCED, bit 1 is no flag of the headers.
FlagBits == 0..3

\* Flags::from_bits_truncate: the bits that are flags
FlagsFromBitsTruncate(bits) == [tag |-> "Flags", val |-> bits % 2]

\* The native AVSubtitleRect of type t with the flags field f.
AVSubtitleRect(t, f) ==
   [struct |-> "AVSubtitleRect", type_ |-> t, flags |-> f,
    x |-> 0, y |-> 0, w |-> 0, h |-> 0, nb_colors |-> 0,
    pict |-> <<>>, text |-> <<0>>, ass |-> <<0>>]

\* Bitmap::wrap, Text::wrap, Ass::wrap
BitmapWrap(ptr) == [type |-> "Bitmap", ptr |-> ptr]

TextWrap(ptr) == [type |-> "Text", ptr |-> ptr]

AssWrap(ptr) == [type |-> "Ass", ptr |-> ptr]

\* as_ptr of Bitmap, of Text and of Ass
AsPtr(self) == self.ptr

\* The values of the c_int fields x, y, w, h and nb_colors of a rect.
CIntValues == {0 - 2147483647 - 1, 0 - 1, 0, 2147483647}

\* The native AVSubtitleRect of a bitmap with the given geometry.
AVSubtitleBitmap(x, y, w, h, n) ==
   [AVSubtitleRect("SUBTITLE_BITMAP", 0) EXCEPT
       !.x = x, !.y = y, !.w = w, !.h = h, !.nb_colors = n]

\* x as u32, x a c_int: the same 32 bits
AsU32(x) == <<x % Limb, (x \div Limb) % Limb>>

\* Bitmap::x, y, width, height and colors
BitmapX(self, mem) == AsUsize(mem[AsPtr(self)].x)

BitmapY(self, mem) == AsUsize(mem[AsPtr(self)].y)

BitmapWidth(self, mem) == AsU32(mem[AsPtr(self)].w)

BitmapHeight(self, mem) == AsU32(mem[AsPtr(self)].h)

BitmapColors(self, mem) == AsUsize(mem[AsPtr(self)].nb_colors)

\* The accessor of Bitmap of the name method.
BitmapGet(method, self, mem) ==
   CASE method = "x" -> BitmapX(self, mem)
     [] method = "y" -> BitmapY(self, mem)
     [] method = "width" -> BitmapWidth(self, mem)
     [] method = "height" -> BitmapHeight(self, mem)
     [] method = "colors" -> BitmapColors(self, mem)

\* A wrap that takes a text rect for an ASS rect and the reverse.
RectWrapMut(ptr, mem) ==
   CASE SubtitleTypeFrom(mem[ptr].type_) = "None" ->
           [type |-> "Rect", variant |-> "None", ptr |-> ptr]
     [] SubtitleTypeFrom(mem[ptr].type_) = "Bitmap" ->
           [type |-> "Rect", variant |-> "Bitmap", sub |-> BitmapWrap(ptr)]
     [] SubtitleTypeFrom(mem[ptr].type_) = "Text" ->
           [type |-> "Rect", variant |-> "Ass", sub |-> AssWrap(ptr)]
     [] SubtitleTypeFrom(mem[ptr].type_) = "Ass" ->
           [type |-> "Rect", variant |-> "Text", sub |-> TextWrap(ptr)]

\* Rect::wrap
RectWrap(ptr, mem) ==
   CASE SubtitleTypeFrom(mem[ptr].type_) = "None" ->
           [type |-> "Rect", variant |-> "None", ptr |-> ptr]
     [] SubtitleTypeFrom(mem[ptr].type_) = "Bitmap" ->
           [type |-> "Rect", variant |-> "Bitmap", sub |-> BitmapWrap(ptr)]
     [] SubtitleTypeFrom(mem[ptr].type_) = "Text" ->
           [type |-> "Rect", variant |-> "Text", sub |-> TextWrap(ptr)]
     [] SubtitleTypeFrom(mem[ptr].type_) = "Ass" ->
           [type |-> "Rect", variant |-> "Ass", sub |-> AssWrap(ptr)]

\* Rect::as_ptr
RectAsPtr(self) ==
   CASE self.variant = "None" -> self.ptr
     [] self.variant = "Bitmap" -> AsPtr(self.sub)
     [] self.variant = "Text" -> AsPtr(self.sub)
     [] self.variant = "Ass" -> AsPtr(self.sub)

\* A flags() that reports no flag for a text rect.
RectFlagsMut(self, mem) ==
   FlagsFromBitsTruncate(
      CASE self.variant = "None" -> mem[self.ptr].flags
        [] self.variant = "Bitmap" -> mem[AsPtr(self.sub)].flags
        [] self.variant = "Text" -> 0
        [] self.variant = "Ass" -> mem[AsPtr(self.sub)].flags)

\* Rect::flags
RectFlags(self, mem) ==
   FlagsFromBitsTruncate(
      CASE self.variant = "None" -> mem[self.ptr].flags
        [] self.variant = "Bitmap" -> mem[AsPtr(self.sub)].flags
        [] self.variant = "Text" -> mem[AsPtr(self.sub)].flags
        [] self.variant = "Ass" -> mem[AsPtr(self.sub)].flags)

(***************************************************************************)
(* time::sleep (time.rs).  Error::from(c_int) is defined outside of the    *)
(* files at hand and follows the specification.                            *)
(***************************************************************************)

\* The durations asked for, and what av_usleep may return: 0, the negative
\* error codes and, were it to, positive codes.
Usecs == {0, 1, 1000000}

UsleepReturns == (0 - 40)..2

NoSleep == [usec |-> 0, e |-> 0, ret |-> None]

\* Error::from(e): the error that carries the native code e
ErrorFrom(e) == [error |-> "from", code |-> e]

\* A sleep that reports success for the positive codes.
SleepMut(usec, e) == IF e >= 0 THEN Ok(<<>>) ELSE Err(ErrorFrom(e))

\* time::sleep(usec), e the value av_usleep(usec) returns
Sleep(usec, e) == IF e = 0 THEN Ok(<<>>) ELSE Err(ErrorFrom(e))

(***************************************************************************)
(* The accessors of the wrappers.  Each is a method on &self whose body    *)
(* reads one field of the structure behind the wrapped pointer, or         *)
(* hands the pointer to a reading function of the native library; what it  *)
(* makes of the value read (a string slice, a bridged enum, a cast) is not *)
(* modelled here, the value read stands for it.                            *)
(***************************************************************************)

\* One native structure of each kind the wrappers stand on.
AVInputFormat ==
   [struct |-> "AVInputFormat", name |-> <<109, 0>>, long_name |-> <<77, 0>>,
    extensions |-> Mp4Example, mime_type |-> <<0>>]

AVFormatContext ==
   [struct |-> "AVFormatContext", nb_chapters |-> 1,
    chapters |-> <<[id |-> 7, time_base |-> <<1, 1000>>, start |-> 0,
                    end |-> 5000, metadata |-> 0]>>]

AVPixFmtDescriptor ==
   [struct |-> "AVPixFmtDescriptor", name |-> <<121, 0>>, nb_components |-> 3,
    log2_chroma_w |-> 1, log2_chroma_h |-> 1]

AccessStructs ==
   {AVCodec("AVMEDIA_TYPE_VIDEO") @@ [max_lowres |-> 0, profiles |-> 0],
    AVInputFormat, AVFormatContext, AVPixFmtDescriptor,
    [struct |-> "AVPacketSideData", type_ |-> "AV_PKT_DATA_PALETTE",
     alloc |-> <<0, 255>>, data |-> 1, size |-> 2],
    [struct |-> "AVFrameSideData", type_ |-> "AV_FRAME_DATA_PANSCAN",
     alloc |-> <<0, 255>>, data |-> 1, size |-> 2, metadata |-> 0]}
      \cup {AVSubtitleRect(t, 1) : t \in SubtitleTypes}

\* Input::wrap, Chapter::wrap and the Descriptor that Pixel::descriptor makes
InputWrap(ptr) == [type |-> "Input", ptr |-> ptr]

ChapterWrap(context, index) ==
   [type |-> "Chapter", context |-> context, index |-> index]

DescriptorWrap(ptr) == [type |-> "Descriptor", ptr |-> ptr]

\* *self.as_ptr(): the native structure a wrapper stands on
Pointee(self, mem) ==
   CASE self.type = "Chapter" -> mem[self.context].chapters[self.index + 1]
     [] self.type = "Rect" -> mem[RectAsPtr(self)]
     [] OTHER -> mem[self.ptr]

\* The accessors: the wrapper, the method, and the field of the pointee it
\* reads ("" when it hands the pointer to the native library, "self.index"
\* when it reads the wrapper's own field).
Accessors ==
   {<<"Codec", "is_encoder", "">>, <<"Codec", "is_decoder", "">>,
    <<"Codec", "name", "name">>, <<"Codec", "description", "long_name">>,
    <<"Codec", "medium", "type_">>, <<"Codec", "id", "id">>,
    <<"Codec", "is_video", "type_">>, <<"Codec", "is_audio", "type_">>,
    <<"Codec", "max_lowres", "max_lowres">>,
    <<"Codec", "capabilities", "capabilities">>,
    <<"Codec", "profiles", "profiles">>,
    <<"Input", "name", "name">>, <<"Input", "description", "long_name">>,
    <<"Input", "extensions", "extensions">>,
    <<"Input", "mime_types", "mime_type">>,
    <<"Chapter", "index", "self.index">>, <<"Chapter", "id", "id">>,
    <<"Chapter", "time_base", "time_base">>, <<"Chapter", "start", "start">>,
    <<"Chapter", "end", "end">>, <<"Chapter", "metadata", "metadata">>,
    <<"packet::SideData", "kind", "type_">>,
    <<"frame::SideData", "kind", "type_">>,
    <<"frame::SideData", "metadata", "metadata">>,
    <<"Rect", "flags", "flags">>,
    <<"Bitmap", "x", "x">>, <<"Bitmap", "y", "y">>,
    <<"Bitmap", "width", "w">>, <<"Bitmap", "height", "h">>,
    <<"Bitmap", "colors", "nb_colors">>, <<"Bitmap", "picture", "pict">>,
    <<"Text", "get", "text">>, <<"Ass", "get", "ass">>,
    <<"Descriptor", "name", "name">>,
    <<"Descriptor", "nb_components", "nb_components">>,
    <<"Descriptor", "log2_chroma_w", "log2_chroma_w">>,
    <<"Descriptor", "log2_chroma_h", "log2_chroma_h">>}

\* A picture() that writes through the pointer it casts to *mut, and
\* accessors that forget their pointer.
AccessMut(a, self, mem) ==
   [ret |-> <<>>,
    mem |-> IF a[2] = "picture"
            THEN [mem EXCEPT ![self.ptr] = [@ EXCEPT !.pict = <<0>>]]
            ELSE mem,
    self |-> IF a[2] = "picture" THEN self ELSE NoView]

\* The accessor a called on the wrapper self over the native memory mem:
\* what it returns, the memory after the call and the wrapper after it.
Access(a, self, mem) ==
   [ret |-> CASE a[3] = "" -> <<>>
              [] a[3] = "self.index" -> self.index
              [] OTHER -> Pointee(self, mem)[a[3]],
    mem |-> mem,
    self |-> self]

(***************************************************************************)
(* The borrows.  Every view carries a lifetime 'a: Chapter<'a> holds a     *)
(* &'a Context, the side-data views a PhantomData<&'a Packet> or           *)
(* PhantomData<&'a Frame>, the subtitle views a PhantomData<&'a ()>.  The  *)
(* parents (Packet, Frame, Subtitle, Context) are defined outside of the   *)
(* files at hand; their accessors hand a view out for a borrow of the      *)
(* parent, as the specification has it, and Rust lets a parent be mutated  *)
(* or dropped only when no borrow of it is live.                           *)
(***************************************************************************)

\* The most mutations of one parent.
MaxGen == 2

\* The native structures the parents own.
ParentStructs == {"AVPacket", "AVFrame", "AVSubtitle", "AVFormatContext"}

\* What a parent owns: gen counts the parent's mutations so far, freed says
\* that the parent was destroyed.
Owned(struct) ==
   [struct |-> struct, gen |-> 0, freed |-> FALSE,
    type_ |-> "SUBTITLE_TEXT", nb_chapters |-> 1]

\* The view a parent hands out on what it owns at ptr.
ViewOf(ptr, mem) ==
   CASE mem[ptr].struct = "AVPacket" -> PacketSideDataWrap(ptr)
     [] mem[ptr].struct = "AVFrame" -> FrameSideDataWrap(ptr)
     [] mem[ptr].struct = "AVSubtitle" -> RectWrap(ptr, mem)
     [] mem[ptr].struct = "AVFormatContext" -> ChapterWrap(ptr, 0)

\* A Chapter that holds a raw pointer to its context instead of a borrow.
BorrowsMut(self) ==
   CASE self.type = "" -> {}
     [] self.type = "Chapter" -> {}
     [] self.type = "Rect" -> {RectAsPtr(self)}
     [] OTHER -> {self.ptr}

\* The parents a view keeps borrowed for as long as it lives.
Borrows(self) ==
   CASE self.type = "" -> {}
     [] self.type = "Chapter" -> {self.context}
     [] self.type = "Rect" -> {RectAsPtr(self)}
     [] OTHER -> {self.ptr}

(***************************************************************************)
(* Codec::description and Codec::profiles (codec.rs).                      *)
(***************************************************************************)

\* The native AVCodec whose long_name is the native string s.
AVCodecNamed(s) == [AVCodec("AVMEDIA_TYPE_VIDEO") EXCEPT !.long_name = s]

\* Codec::description: a &str, empty for a null long_name
CodecDescription(self, mem) ==
   IF mem[self.ptr].long_name.null THEN Str(<<>>)
   ELSE Str(CStrToBytes(mem[self.ptr].long_name.mem))

\* AVCodecID of the native headers, and the values of a profiles pointer: 0
\* is null, the others are addresses of a profile array.
CodecIds == {"AV_CODEC_ID_NONE", "AV_CODEC_ID_H264", "AV_CODEC_ID_VP9"}

ProfilePtrs == {0, 1, 5}

\* Id::from(AVCodecID): the enum bridge of the codec ids
IdFrom(id) ==
   CASE id = "AV_CODEC_ID_H264" -> "H264"
     [] id = "AV_CODEC_ID_VP9" -> "VP9"
     [] OTHER -> "None"

\* The native AVCodec with the id and the profiles pointer given.
AVCodecWith(id, profiles) ==
   [AVCodec("AVMEDIA_TYPE_VIDEO") EXCEPT !.id = id]
      @@ [profiles |-> profiles]

\* Codec::id
CodecId(self, mem) == IdFrom(mem[self.ptr].id)

\* A profiles() that hands the iterator the id of another codec and
\* starts it one entry into the array.
CodecProfilesMut(self, mem) ==
   IF mem[self.ptr].profiles = 0 THEN None
   ELSE Some(ProfileIterNew("H264", mem[self.ptr].profiles + 1))

\* Codec::profiles
CodecProfiles(self, mem) ==
   IF mem[self.ptr].profiles = 0 THEN None
   ELSE Some(ProfileIterNew(CodecId(self, mem), mem[self.ptr].profiles))


(***************************************************************************)
(* Pixel::from_str.  The string is a sequence of bytes; the native lookup  *)
(* av_get_pix_fmt is asked only for a string CString::new accepts, and     *)
(* format is its answer after Pixel::from.                                 *)
(***************************************************************************)
\* ParsePixelError::NulError, pos the index of the first NUL
NulError(pos) == [error |-> "NulError", pos |-> pos]

\* ParsePixelError::UnknownFormat
UnknownFormat == [error |-> "UnknownFormat", pos |-> 0]

\* CString::new(s): an error for a string that holds a NUL, else the bytes
\* with the terminator
CStringNew(s) ==
   IF \E i \in 1..Len(s) : s[i] = NUL
   THEN Err(NulError((CHOOSE i \in 1..Len(s) :
                         /\ s[i] = NUL
                         /\ \A j \in 1..(i - 1) : s[j] # NUL) - 1))
   ELSE Ok(s \o <<NUL>>)

\* No call of from_str yet.
NotParsed ==
   [s |-> <<>>, answer |-> "", called |-> FALSE, ret |-> Undefined]

\* The strings given to from_str: a name, and two that hold a NUL.
ParseStrings == {<<97>>, <<NUL>>, <<97, NUL, 97>>}

\* The formats av_get_pix_fmt can answer with under the profile F: the
\* constants of the native headers, on a little-endian target.
PixelFormats(F) ==
   KnownNative("Pixel", F)
      \cup {NativeEndian(n, FALSE) : n \in Results(PixelToArms, F)}

\* A from_str that leaves out the comparison with Pixel::None.
PixelFromStrMut(s, format) ==
   IF CStringNew(s).tag = "Err"
   THEN [called |-> FALSE, ret |-> Err(CStringNew(s).val)]
   ELSE [called |-> TRUE,
         ret |-> IF format = Trap THEN Undefined ELSE Ok(format)]

\* Pixel::from_str(s), format what av_get_pix_fmt(cstring).into() gave
PixelFromStr(s, format) ==
   IF CStringNew(s).tag = "Err"
   THEN [called |-> FALSE, ret |-> Err(CStringNew(s).val)]
   ELSE [called |-> TRUE,
         ret |-> IF format = Trap THEN Undefined
                 ELSE IF format = "None" THEN Err(UnknownFormat)
                 ELSE Ok(format)]

(***************************************************************************)
(* The state.                                                              *)
(***************************************************************************)
VARIABLES
   features,   \* the compile-time profile: the features switched on
   stage,      \* "idle", "from", "to", "again", "named", "into", "back" or
               \* "undefined"
   dom,        \* the domain of the conversion in progress
   native,     \* the native value given to from_native
   safe,       \* from_native(native)
   back,       \* to_native(safe)
   again,      \* from_native(back)
   answer,     \* the native name lookup's answer to name()
   named,      \* what name() did on safe
   path,       \* the name the program wrote for safe ("" if it wrote none)
   parsed,     \* the last call of Pixel::from_str: its argument, whether
               \* av_get_pix_fmt was called, its answer and the result
   profiles,   \* the native profile array
   iter,       \* the ProfileIter (NoIter before ProfileIter::new)
   ctorId,     \* the id given to ProfileIter::new
   calls,      \* the number of calls of next() so far
   ret,        \* what the last call of next() returned
   yielded,    \* the items next() returned so far, in order
   reads,      \* the indices of the array entries read so far
   input,      \* the native AVInputFormat: its extensions and mime_type
   op,         \* the last accessor called on the Input ("" before any)
   result,     \* what that accessor returned
   heap,       \* the native structures, by address
   views,      \* the wrapper made for each address (NoView if none)
   out,        \* the last call on each wrapper and what it returned
   slept       \* the last call of sleep: its argument, av_usleep's answer
               \* and what sleep returned

bridgeVars ==
   <<features, stage, dom, native, safe, back, again, answer, named, path,
     parsed>>

iterVars == <<profiles, iter, ctorId, calls, ret, yielded, reads>>

inputVars == <<input, op, result>>

viewVars == <<heap, views, out>>

timeVars == <<slept>>

vars == <<bridgeVars, iterVars, inputVars, viewVars, timeVars>>

BridgeInit(profileSet) ==
   /\ features \in profileSet
   /\ stage = "idle"
   /\ dom = ""
   /\ native = ""
   /\ safe = ""
   /\ back = ""
   /\ again = ""
   /\ answer = NullPtr
   /\ named = NotCalled
   /\ path = ""
   /\ parsed = NotParsed

IterInit(arrays) ==
   /\ profiles \in arrays
   /\ iter = NoIter
   /\ ctorId = ""
   /\ calls = 0
   /\ ret = None
   /\ yielded = <<>>
   /\ reads = {}

InputInit(strings) ==
   /\ input \in [extensions : strings, mime_type : strings]
   /\ op = ""
   /\ result = <<>>

\* Native structures structs at the addresses ptrs, none of them wrapped.
ViewInit(ptrs, structs) ==
   /\ heap \in [ptrs -> structs]
   /\ views = [p \in ptrs |-> NoView]
   /\ out = [p \in ptrs |-> NoCall]

TimeInit == slept = NoSleep

\* Type::from(n) on a native value n of one of the domains ds: a constant
\* of the native headers or one of the raw values raws.  A value no arm
\* takes ends the run in undefined behaviour.
FromNativeIn(ds, raws) ==
   /\ stage = "idle"
   /\ \E d \in ds :
         \E n \in KnownNative(d, features) \cup raws :
            /\ dom' = d
            /\ native' = n
            /\ safe' \in FromOutcomes(d, features, n)
            /\ stage' = IF FromNative(d, features, n) = NoArm
                        THEN "undefined" ELSE "from"
   /\ UNCHANGED <<features, back, again, answer, named, path, parsed,
                  iterVars, inputVars, viewVars, timeVars>>

\* safe.into()
ToNativeStep ==
   /\ stage = "from"
   /\ back' = ToNative(dom, features, safe)
   /\ stage' = "to"
   /\ UNCHANGED <<features, dom, native, safe, again, answer, named, path, parsed,
                  iterVars, inputVars, viewVars, timeVars>>

\* Type::from on the native value to_native gave
FromNativeAgain ==
   /\ stage = "to"
   /\ again' \in FromOutcomes(dom, features, back)
   /\ stage' = IF FromNative(dom, features, back) = NoArm
               THEN "undefined" ELSE "again"
   /\ UNCHANGED <<features, dom, native, safe, back, answer, named, path, parsed,
                  iterVars, inputVars, viewVars, timeVars>>

\* safe.name()
Name ==
   /\ stage = "from"
   /\ dom \in NameDomains
   /\ \E ans \in NameAnswers :
         /\ answer' = ans
         /\ named' = NameOf(dom, features, safe, ans)
   /\ stage' = "named"
   /\ UNCHANGED <<features, dom, native, safe, back, again, path, parsed,
                  iterVars, inputVars, viewVars, timeVars>>

\* Enum::name.into() for a name the program writes, in one of the domains
\* ds: to_native on the value the path stands for.
IntoNative(ds) ==
   /\ stage = "idle"
   /\ \E d \in ds :
         \E name \in PathNames(d) :
            /\ Resolve(d, features, name) # NoArm
            /\ dom' = d
            /\ path' = name
            /\ safe' = Resolve(d, features, name)
            /\ back' = ToNative(d, features, Resolve(d, features, name))
   /\ stage' = "into"
   /\ UNCHANGED <<features, native, again, answer, named, parsed,
                  iterVars, inputVars, viewVars, timeVars>>

\* Type::from on the native value that into() gave, on a big-endian or a
\* little-endian target
FromNativeBack ==
   /\ stage = "into"
   /\ \E big \in BOOLEAN :
         /\ again' \in FromOutcomes(dom, features, NativeEndian(back, big))
         /\ stage' = IF FromNative(dom, features, NativeEndian(back, big))
                          = NoArm
                     THEN "undefined" ELSE "back"
   /\ UNCHANGED <<features, dom, native, safe, back, answer, named, path, parsed,
                  iterVars, inputVars, viewVars, timeVars>>

\* s.parse::<Pixel>() for one of the strings strs.  av_get_pix_fmt belongs
\* to the native library: its answer is an input, one of the formats of the
\* native headers.  An answer no arm of from takes is undefined behaviour.
FromStrCall(strs) ==
   /\ stage = "idle"
   /\ parsed = NotParsed
   /\ \E s \in strs :
         IF CStringNew(s).tag = "Err"
         THEN parsed' = [s |-> s, answer |-> ""] @@ PixelFromStr(s, "")
         ELSE \E n \in PixelFormats(features) :
                 \E format \in FromOutcomes("Pixel", features, n) :
                    parsed' = [s |-> s, answer |-> n] @@ PixelFromStr(s, format)
   /\ UNCHANGED <<features, stage, dom, native, safe, back, again, answer,
                  named, path, iterVars, inputVars, viewVars, timeVars>>

\* ProfileIter::new(id, ptr), ptr the start of the native array
IterNew ==
   /\ iter = NoIter
   /\ \E id \in Ids :
         /\ iter' = ProfileIterNew(id, 1)
         /\ ctorId' = id
   /\ UNCHANGED <<profiles, calls, ret, yielded, reads,
                  bridgeVars, inputVars, viewVars, timeVars>>

\* iter.next().  A cursor outside the array makes the read undefined
\* behaviour: it may give any profile number, or trap.
IterNext ==
   /\ iter # NoIter
   /\ calls < MaxCalls
   /\ \E mem \in MemoryAt(profiles, iter.ptr) :
         IF mem = Unreadable
         THEN /\ iter' = NoIter
              /\ ret' = Undefined
              /\ yielded' = yielded
         ELSE LET r == ProfileIterNext(iter, mem)
              IN  /\ iter' = r.self
                  /\ ret' = r.ret
                  /\ yielded' = IF r.ret.tag = "None" THEN yielded
                                ELSE Append(yielded, r.ret.val)
   /\ reads' = reads \cup {iter.ptr}
   /\ calls' = calls + 1
   /\ UNCHANGED <<profiles, ctorId, bridgeVars, inputVars, viewVars, timeVars>>

\* input.extensions()
CallExtensions ==
   /\ op' = "extensions"
   /\ result' = Extensions(input)
   /\ UNCHANGED <<input, bridgeVars, iterVars, viewVars, timeVars>>

\* input.mime_types()
CallMimeTypes ==
   /\ op' = "mime_types"
   /\ result' = MimeTypes(input)
   /\ UNCHANGED <<input, bridgeVars, iterVars, viewVars, timeVars>>

\* What the wrappers' operations leave alone.
notViewVars == <<bridgeVars, iterVars, inputVars, timeVars>>

\* SideData::wrap(ptr) of a packet, ptr the address of an AVPacketSideData
PacketSideDataWrapCall ==
   /\ \E p \in DOMAIN heap :
         /\ heap[p].struct = "AVPacketSideData"
         /\ views[p] = NoView
         /\ views' = [views EXCEPT ![p] = PacketSideDataWrap(p)]
   /\ UNCHANGED <<heap, out, notViewVars>>

\* SideData::wrap(ptr) of a frame, ptr the address of an AVFrameSideData
FrameSideDataWrapCall ==
   /\ \E p \in DOMAIN heap :
         /\ heap[p].struct = "AVFrameSideData"
         /\ views[p] = NoView
         /\ views' = [views EXCEPT ![p] = FrameSideDataWrap(p)]
   /\ UNCHANGED <<heap, out, notViewVars>>

\* data() on a packet SideData
PacketSideDataDataCall ==
   /\ \E p \in DOMAIN views :
         /\ views[p].type = "packet::SideData"
         /\ out' = [out EXCEPT ![p] =
                       [op |-> "data",
                        ret |-> PacketSideDataData(views[p], heap)]]
   /\ UNCHANGED <<heap, views, notViewVars>>

\* data() on a frame SideData
FrameSideDataDataCall ==
   /\ \E p \in DOMAIN views :
         /\ views[p].type = "frame::SideData"
         /\ out' = [out EXCEPT ![p] =
                       [op |-> "data",
                        ret |-> FrameSideDataData(views[p], heap)]]
   /\ UNCHANGED <<heap, views, notViewVars>>

\* Codec::wrap(ptr), ptr the address of an AVCodec
CodecWrapCall ==
   /\ \E p \in DOMAIN heap :
         /\ heap[p].struct = "AVCodec"
         /\ views[p] = NoView
         /\ views' = [views EXCEPT ![p] = CodecWrap(p)]
   /\ UNCHANGED <<heap, out, notViewVars>>

\* codec.video()
CodecVideoCall ==
   /\ \E p \in DOMAIN views :
         /\ views[p].type = "Codec"
         /\ out' = [out EXCEPT ![p] =
                       [op |-> "video", ret |-> CodecVideo(views[p], heap)]]
   /\ UNCHANGED <<heap, views, notViewVars>>

\* codec.is_video()
CodecIsVideoCall ==
   /\ \E p \in DOMAIN views :
         /\ views[p].type = "Codec"
         /\ out' = [out EXCEPT ![p] =
                       [op |-> "is_video",
                        ret |-> CodecIsVideo(views[p], heap)]]
   /\ UNCHANGED <<heap, views, notViewVars>>

\* codec.is_audio()
CodecIsAudioCall ==
   /\ \E p \in DOMAIN views :
         /\ views[p].type = "Codec"
         /\ out' = [out EXCEPT ![p] =
                       [op |-> "is_audio",
                        ret |-> CodecIsAudio(views[p], heap)]]
   /\ UNCHANGED <<heap, views, notViewVars>>

\* codec.audio()
CodecAudioCall ==
   /\ \E p \in DOMAIN views :
         /\ views[p].type = "Codec"
         /\ out' = [out EXCEPT ![p] =
                       [op |-> "audio", ret |-> CodecAudio(views[p], heap)]]
   /\ UNCHANGED <<heap, views, notViewVars>>

\* Rect::wrap(ptr), ptr the address of an AVSubtitleRect
RectWrapCall ==
   /\ \E p \in DOMAIN heap :
         /\ heap[p].struct = "AVSubtitleRect"
         /\ views[p] = NoView
         /\ views' = [views EXCEPT ![p] = RectWrap(p, heap)]
   /\ UNCHANGED <<heap, out, notViewVars>>

\* bitmap.x(), y(), width(), height() or colors() on the Bitmap of a rect
BitmapCall ==
   /\ \E p \in DOMAIN views :
         /\ views[p].type = "Rect"
         /\ views[p].variant = "Bitmap"
         /\ \E method \in {"x", "y", "width", "height", "colors"} :
               out' = [out EXCEPT ![p] =
                          [op |-> method,
                           ret |-> BitmapGet(method, views[p].sub, heap)]]
   /\ UNCHANGED <<heap, views, notViewVars>>

\* rect.as_ptr()
RectAsPtrCall ==
   /\ \E p \in DOMAIN views :
         /\ views[p].type = "Rect"
         /\ out' = [out EXCEPT ![p] =
                       [op |-> "as_ptr",
                        ret |-> [tag |-> "Ptr", val |-> RectAsPtr(views[p])]]]
   /\ UNCHANGED <<heap, views, notViewVars>>

\* rect.flags()
RectFlagsCall ==
   /\ \E p \in DOMAIN views :
         /\ views[p].type = "Rect"
         /\ out' = [out EXCEPT ![p] =
                       [op |-> "flags", ret |-> RectFlags(views[p], heap)]]
   /\ UNCHANGED <<heap, views, notViewVars>>

\* time::sleep(usec)
SleepCall ==
   /\ \E usec \in Usecs :
         \E e \in UsleepReturns :
            slept' = [usec |-> usec, e |-> e, ret |-> Sleep(usec, e)]
   /\ UNCHANGED <<bridgeVars, iterVars, inputVars, viewVars>>


\* Input::wrap(ptr), ptr the address of an AVInputFormat
InputWrapCall ==
   /\ \E p \in DOMAIN heap :
         /\ heap[p].struct = "AVInputFormat"
         /\ views[p] = NoView
         /\ views' = [views EXCEPT ![p] = InputWrap(p)]
   /\ UNCHANGED <<heap, out, notViewVars>>

\* Chapter::wrap(context, index), context at the address of an
\* AVFormatContext and index below its nb_chapters
ChapterWrapCall ==
   /\ \E p \in DOMAIN heap :
         /\ heap[p].struct = "AVFormatContext"
         /\ views[p] = NoView
         /\ \E index \in 0..(heap[p].nb_chapters - 1) :
               views' = [views EXCEPT ![p] = ChapterWrap(p, index)]
   /\ UNCHANGED <<heap, out, notViewVars>>

\* pixel.descriptor(), the native library answering with the address of an
\* AVPixFmtDescriptor
DescriptorCall ==
   /\ \E p \in DOMAIN heap :
         /\ heap[p].struct = "AVPixFmtDescriptor"
         /\ views[p] = NoView
         /\ views' = [views EXCEPT ![p] = DescriptorWrap(p)]
   /\ UNCHANGED <<heap, out, notViewVars>>

\* Any accessor on any wrapper, a Rect's sub-view included: the memory and
\* the wrapper are what the accessor leaves.
AccessorCall ==
   /\ \E p \in DOMAIN views :
         \E onSub \in BOOLEAN :
            /\ views[p] # NoView
            /\ onSub => (views[p].type = "Rect" /\ views[p].variant # "None")
            /\ LET self == IF onSub THEN views[p].sub ELSE views[p]
               IN  \E a \in Accessors :
                      /\ a[1] = self.type
                      /\ heap' = Access(a, self, heap).mem
                      /\ views' =
                            [views EXCEPT ![p] =
                                IF onSub
                                THEN [@ EXCEPT !.sub =
                                                  Access(a, self, heap).self]
                                ELSE Access(a, self, heap).self]
                      /\ out' = [out EXCEPT ![p] =
                                    [op |-> a[2],
                                     ret |-> Access(a, self, heap).ret]]
   /\ UNCHANGED notViewVars

\* A parent hands out a view (packet.side_data(), frame.side_data(),
\* subtitle.rects(), context.chapters()): wrap, for a borrow of the parent.
ParentView ==
   /\ \E p \in DOMAIN heap :
         /\ ~heap[p].freed
         /\ views[p] = NoView
         /\ views' = [views EXCEPT ![p] = ViewOf(p, heap)]
         /\ out' = [out EXCEPT ![p] =
                       [op |-> "wrap", ret |-> None,
                        wrapped |-> heap[p].gen, gen |-> heap[p].gen,
                        freed |-> heap[p].freed]]
   /\ UNCHANGED <<heap, notViewVars>>

\* An accessor read through a view: what it finds of the parent.
ViewRead ==
   /\ \E p \in DOMAIN views :
         /\ views[p] # NoView
         /\ out' = [out EXCEPT ![p] =
                       [op |-> "read",
                        ret |-> IF heap[p].freed THEN Undefined ELSE None,
                        wrapped |-> out[p].wrapped, gen |-> heap[p].gen,
                        freed |-> heap[p].freed]]
   /\ UNCHANGED <<heap, views, notViewVars>>

\* A view goes out of scope.  No view implements Drop: nothing is freed.
ViewDrop ==
   /\ \E p \in DOMAIN views :
         /\ views[p] # NoView
         /\ views' = [views EXCEPT ![p] = NoView]
         /\ out' = [out EXCEPT ![p] = NoCall]
   /\ UNCHANGED <<heap, notViewVars>>

\* A parent is mutated through &mut: no view borrows it.
ParentMutate ==
   /\ \E p \in DOMAIN heap :
         /\ ~heap[p].freed
         /\ heap[p].gen < MaxGen
         /\ \A q \in DOMAIN views : p \notin Borrows(views[q])
         /\ heap' = [heap EXCEPT ![p].gen = @ + 1]
   /\ UNCHANGED <<views, out, notViewVars>>

\* A parent is dropped: no view borrows it.
ParentDestroy ==
   /\ \E p \in DOMAIN heap :
         /\ ~heap[p].freed
         /\ \A q \in DOMAIN views : p \notin Borrows(views[q])
         /\ heap' = [heap EXCEPT ![p].freed = TRUE]
   /\ UNCHANGED <<views, out, notViewVars>>

\* codec.description()
CodecDescriptionCall ==
   /\ \E p \in DOMAIN views :
         /\ views[p].type = "Codec"
         /\ out' = [out EXCEPT ![p] =
                       [op |-> "description",
                        ret |-> CodecDescription(views[p], heap)]]
   /\ UNCHANGED <<heap, views, notViewVars>>

\* codec.profiles()
CodecProfilesCall ==
   /\ \E p \in DOMAIN views :
         /\ views[p].type = "Codec"
         /\ out' = [out EXCEPT ![p] =
                       [op |-> "profiles",
                        ret |-> CodecProfiles(views[p], heap)]]
   /\ UNCHANGED <<heap, views, notViewVars>>
IterIdle == IterInit({<<FF_PROFILE_UNKNOWN>>})

InputIdle == InputInit({NullStr})

BridgeIdle == BridgeInit({{}})

ViewIdle == ViewInit({}, {})

\* The bridges other than Pixel's are gated on the version features only:
\* every combination of these.
Init ==
   /\ BridgeInit(SUBSET VersionFeatures) /\ IterIdle /\ InputIdle /\ ViewIdle
   /\ TimeInit

Next ==
   \/ FromNativeIn(SmallDomains, UnknownNative)
   \/ IntoNative(SmallDomains)
   \/ ToNativeStep
   \/ FromNativeAgain
   \/ Name

Spec == Init /\ [][Next]_vars

\* Pixel's bridge, and Range's and Space's beside it, under every
\* combination of all the features.
InitPixel ==
   /\ BridgeInit(SUBSET Features) /\ IterIdle /\ InputIdle /\ ViewIdle
   /\ TimeInit

NextPixel ==
   \/ FromNativeIn({"Pixel", "Range", "Space"}, {"-1000"})
   \/ IntoNative({"Pixel", "Range", "Space"})
   \/ ToNativeStep
   \/ FromNativeAgain

SpecPixel == InitPixel /\ [][NextPixel]_vars

\* Every bridge, Pixel's included, from a native value to the safe value
\* and back to a native value, under every combination of all the features.
NextThere ==
   \/ FromNativeIn(Domains, {"-1000"})
   \/ ToNativeStep

SpecThere == InitPixel /\ [][NextThere]_vars

\* Pixel's bridge from a written name to the native value and back to a
\* Pixel, beside from_native on every native value, under every
\* combination of all the features.
NextAlias ==
   \/ FromNativeIn({"Pixel"}, {"-1000"})
   \/ IntoNative({"Pixel"})
   \/ FromNativeBack

SpecAlias == InitPixel /\ [][NextAlias]_vars

\* The profile iterator over every terminated array.
InitIter ==
   /\ BridgeIdle /\ IterInit(ProfileArrays) /\ InputIdle /\ ViewIdle
   /\ TimeInit

NextIter ==
   \/ IterNew
   \/ IterNext

SpecIter == InitIter /\ [][NextIter]_vars

\* The same, the caller calling next() again and again.
SpecIterFair == InitIter /\ [][NextIter]_vars /\ WF_vars(IterNext)

\* The accessors of an Input over every pair of native strings.
InitInput ==
   /\ BridgeIdle /\ IterIdle /\ InputInit(NativeStrings) /\ ViewIdle
   /\ TimeInit

NextInput ==
   \/ CallExtensions
   \/ CallMimeTypes

SpecInput == InitInput /\ [][NextInput]_vars

NotViewIdle == BridgeIdle /\ IterIdle /\ InputIdle /\ TimeInit

\* data() of one side-data entry of a packet or of a frame, over every
\* buffer, data pointer and size field.
InitSideData ==
   /\ NotViewIdle
   /\ ViewInit({1}, SideDataStructs("AVPacketSideData")
                       \cup SideDataStructs("AVFrameSideData"))

NextSideData ==
   \/ PacketSideDataWrapCall
   \/ FrameSideDataWrapCall
   \/ PacketSideDataDataCall
   \/ FrameSideDataDataCall

SpecSideData == InitSideData /\ [][NextSideData]_vars

\* The narrowing of two codecs of any media types.
InitCodec ==
   /\ NotViewIdle
   /\ ViewInit(Ptrs, {AVCodec(t) : t \in MediaTypes})

NextCodec ==
   \/ CodecWrapCall
   \/ CodecVideoCall
   \/ CodecAudioCall

SpecCodec == InitCodec /\ [][NextCodec]_vars

\* Two subtitle rects of any types and flags, wrapped and read.
InitRect ==
   /\ NotViewIdle
   /\ ViewInit(Ptrs, {AVSubtitleRect(t, f) :
                         t \in SubtitleTypes, f \in FlagBits})

NextRect ==
   \/ RectWrapCall
   \/ RectAsPtrCall
   \/ RectFlagsCall

SpecRect == InitRect /\ [][NextRect]_vars

\* sleep, over the durations and over what av_usleep may return.
InitTime == BridgeIdle /\ IterIdle /\ InputIdle /\ ViewIdle /\ TimeInit

NextTime == SleepCall

SpecTime == InitTime /\ [][NextTime]_vars


\* Every accessor of every wrapper on one native structure of any kind,
\* beside a profile iterator and the accessors of an Input.
InitAccess ==
   /\ BridgeIdle /\ TimeInit
   /\ IterInit({<<66, FF_PROFILE_UNKNOWN>>})
   /\ InputInit({[null |-> FALSE, mem |-> Mp4Example]})
   /\ ViewInit({1}, AccessStructs)

NextAccess ==
   \/ CodecWrapCall
   \/ InputWrapCall
   \/ ChapterWrapCall
   \/ PacketSideDataWrapCall
   \/ FrameSideDataWrapCall
   \/ RectWrapCall
   \/ DescriptorCall
   \/ AccessorCall
   \/ PacketSideDataDataCall
   \/ FrameSideDataDataCall
   \/ CodecVideoCall
   \/ CodecAudioCall
   \/ RectAsPtrCall
   \/ IterNew
   \/ IterNext
   \/ CallExtensions
   \/ CallMimeTypes

SpecAccess == InitAccess /\ [][NextAccess]_vars

\* Two parents of any kinds, mutated and destroyed between the making, the
\* reading and the end of the views on them.
InitBorrow ==
   /\ NotViewIdle
   /\ ViewInit(Ptrs, {Owned(s) : s \in ParentStructs})

NextBorrow ==
   \/ ParentView
   \/ ViewRead
   \/ ViewDrop
   \/ ParentMutate
   \/ ParentDestroy

SpecBorrow == InitBorrow /\ [][NextBorrow]_vars

\* description() of a codec with any native string for its long_name.
InitDescription ==
   /\ NotViewIdle
   /\ ViewInit({1}, {AVCodecNamed(s) : s \in NativeStrings})

NextDescription ==
   \/ CodecWrapCall
   \/ CodecDescriptionCall

SpecDescription == InitDescription /\ [][NextDescription]_vars

\* profiles() of two codecs of any ids and profiles pointers.
InitProfiles ==
   /\ NotViewIdle
   /\ ViewInit(Ptrs, {AVCodecWith(id, pr) :
                         id \in CodecIds, pr \in ProfilePtrs})

NextProfiles ==
   \/ CodecWrapCall
   \/ CodecProfilesCall

SpecProfiles == InitProfiles /\ [][NextProfiles]_vars

\* Pixel::from_str alone, under every profile.
NextParse == FromStrCall(ParseStrings)

SpecParse == InitPixel /\ [][NextParse]_vars

\* Two codecs of any media types: the predicates and the narrowings.
NextKind ==
   \/ CodecWrapCall
   \/ CodecIsVideoCall
   \/ CodecIsAudioCall
   \/ CodecVideoCall
   \/ CodecAudioCall

SpecKind == InitCodec /\ [][NextKind]_vars

\* The unchecked casts: data() of a side-data entry, and the accessors of
\* the Bitmap of a rect over the extreme values of its fields.
InitCast ==
   /\ NotViewIdle
   /\ ViewInit({1}, SideDataStructs("AVPacketSideData")
                       \cup SideDataStructs("AVFrameSideData")
                       \cup {AVSubtitleBitmap(x, y, w, h, n) :
                                x \in CIntValues, y \in {0}, w \in CIntValues,
                                h \in {0 - 1, 0}, n \in {0 - 1, 0}})

NextCast ==
   \/ PacketSideDataWrapCall
   \/ FrameSideDataWrapCall
   \/ PacketSideDataDataCall
   \/ FrameSideDataDataCall
   \/ RectWrapCall
   \/ BitmapCall

SpecCast == InitCast /\ [][NextCast]_vars
(***************************************************************************)
(* The properties.                                                         *)
(***************************************************************************)

\* The NB/count constant and the unspecified constant of a domain.
NbOf(d) ==
   CASE d = "Primaries" -> "AVCOL_PRI_NB"
     [] d = "Range" -> "AVCOL_RANGE_NB"
     [] d = "Space" -> "AVCOL_SPC_NB"
     [] d = "TransferCharacteristic" -> "AVCOL_TRC_NB"
     [] d = "Pixel" -> "AV_PIX_FMT_NB"
     [] OTHER -> "<none>"

UnspecifiedOf(d) ==
   CASE d = "Primaries" -> "AVCOL_PRI_UNSPECIFIED"
     [] d = "Range" -> "AVCOL_RANGE_UNSPECIFIED"
     [] d = "Space" -> "AVCOL_SPC_UNSPECIFIED"
     [] d = "TransferCharacteristic" -> "AVCOL_TRC_UNSPECIFIED"
     [] d = "Pixel" -> "AV_PIX_FMT_NONE"
     [] OTHER -> "<none>"

\* The fallback variants the domains document.
FallbackOf(d) ==
   CASE d = "Pixel" -> "None"
     [] d = "Decision" -> "Simple"
     [] OTHER -> "Unspecified"

\* C1: in each of the domains Primaries, Range, Space,
\* TransferCharacteristic, packet side-data Type, frame side-data Type,
\* Rounding, option Type and Decision, every variant v that from_native
\* returns for some native value has from_native(to_native(v)) = v.
C1RoundTrip ==
   dom \in SmallDomains =>
      /\ stage = "to" => FromNative(dom, features, back) = safe
      /\ stage = "again" => again = safe
      /\ stage = "undefined" => back = ""

\* The NB constant of Primaries has gone to Reserved0, to native and back.
C1Witness ==
   /\ stage = "again"
   /\ dom = "Primaries"
   /\ native = "AVCOL_PRI_NB"
   /\ back = "AVCOL_PRI_RESERVED0"
   /\ again = "Reserved0"

\* C2: for Pixel, under every combination of the features, every variant v
\* that Pixel::from(AVPixelFormat) returns for some native pixel format has
\* Pixel::from(AVPixelFormat::from(v)) = v.
C2PixelRoundTrip ==
   dom = "Pixel" =>
      /\ stage = "to" => PixelFrom(features, back) = safe
      /\ stage = "again" => again = safe
      /\ stage = "undefined" => back = ""

\* A feature-gated pixel format has gone to Pixel, to native and back.
C2Witness ==
   /\ stage = "again"
   /\ dom = "Pixel"
   /\ native = "AV_PIX_FMT_VAAPI_VLD"
   /\ "ff_api_vaapi" \in features
   /\ again = safe

\* C3: in every domain from_native is defined for every 32-bit native
\* value, the values outside all the known discriminants included, and
\* returns the domain's documented fallback variant for these; it never
\* panics and never returns an error.
C3Totality ==
   (stage # "idle" /\ native \in UnknownNative) =>
      /\ stage # "undefined"
      /\ safe = FallbackOf(dom)

\* C4: for Range, Space and Pixel, from_native maps the NB constant to the
\* variant it maps the domain's unspecified constant to: Range::Unspecified,
\* Space::Unspecified and Pixel::None.
C4NbIsUnspecified ==
   (stage # "idle" /\ dom \in {"Range", "Space", "Pixel"}
       /\ native = NbOf(dom)) =>
      /\ stage # "undefined"
      /\ safe = FromNative(dom, features, UnspecifiedOf(dom))
      /\ safe = FallbackOf(dom)

\* AV_PIX_FMT_NB has been converted, with every feature switched on.
C4Witness ==
   /\ stage = "from"
   /\ dom = "Pixel"
   /\ native = "AV_PIX_FMT_NB"
   /\ safe = "None"
   /\ features = Features

\* C5: for Primaries and TransferCharacteristic, from_native maps the NB
\* constant to the variant it maps the domain's unspecified constant to.
C5NbIsUnspecified ==
   (stage # "idle" /\ dom \in {"Primaries", "TransferCharacteristic"}
       /\ native = NbOf(dom)) =>
      safe = FromNative(dom, features, UnspecifiedOf(dom))

\* C6: for Primaries, Range, Space and TransferCharacteristic, name() of the
\* Unspecified variant is None and the native lookup is not consulted; for
\* any other variant it is Some(s) when the native lookup answers a string s
\* and None when it answers null.
C6Name ==
   (stage = "named" /\ dom \in ColorDomains) =>
      IF safe = "Unspecified"
      THEN named.ret = None /\ ~named.consulted
      ELSE /\ named.consulted
           /\ named.arg = ToNative(dom, features, safe)
           /\ ~answer.null => named.ret = Some(answer.str)
           /\ answer.null => named.ret = None

\* name() of Range::Unspecified while the native lookup would have answered
\* a string.
C6Witness ==
   /\ stage = "named"
   /\ dom = "Range"
   /\ safe = "Unspecified"
   /\ ~answer.null
   /\ named.ret = None

\* C7: in every domain with a name() accessor (Primaries, Range, Space,
\* TransferCharacteristic, frame side-data Type), name() of the variant that
\* from_native yields for the domain's NB constant is None, even when the
\* native lookup answers a string.
C7NameOfFallback ==
   (stage = "named" /\ dom \in NameDomains
       /\ safe = FromNative(dom, features, NbOf(dom))) =>
      named.ret = None

\* The items a ProfileIter made with ctorId owes: the entries before the
\* first terminator, in order, each tagged with ctorId.
Expected ==
   [k \in 1..(FirstSentinel(profiles) - 1) |-> <<ctorId, profiles[k]>>]

\* C8: a ProfileIter made with id I over an array whose first terminator is
\* at index n yields exactly n items over the successive calls of next(), in
\* array order, the k-th being Profile::from((I, array[k].profile)); nothing
\* at or after the terminator is yielded.
C8Yields ==
   /\ Len(yielded) <= Len(Expected)
   /\ yielded = SubSeq(Expected, 1, Len(yielded))
   /\ calls <= Len(Expected) => Len(yielded) = calls
   /\ calls >= Len(Expected) => yielded = Expected

\* [(H264,66),(H264,77),(H264,UNKNOWN)] has yielded (H264,66), (H264,77)
\* and then None.
C8Witness ==
   /\ profiles = <<66, 77, FF_PROFILE_UNKNOWN>>
   /\ ctorId = "H264"
   /\ yielded = <<<<"H264", 66>>, <<"H264", 77>>>>
   /\ ret.tag = "None"
   /\ calls = 3

\* C9: once next() has returned None, every later call returns None; the
\* cursor moves by exactly one when an item is yielded and not at all when
\* the terminator is seen; the cursor is never past the first terminator
\* and nothing past the first terminator is ever read.
C9Exhausted ==
   /\ [](/\ iter.ptr <= FirstSentinel(profiles)
         /\ reads \subseteq 1..FirstSentinel(profiles))
   /\ [][calls' # calls =>
            /\ (calls > 0 /\ ret.tag = "None") => ret'.tag = "None"
            /\ ret'.tag \in {"Some", "None"}
            /\ iter'.ptr = iter.ptr + (IF ret'.tag = "Some" THEN 1 ELSE 0)]_vars

\* next() has been called again after the terminator was seen, on an array
\* that has entries after its first terminator.
C9Witness ==
   /\ calls > FirstSentinel(profiles) + 1
   /\ ret.tag = "None"
   /\ yielded # <<>>
   /\ Len(profiles) > FirstSentinel(profiles)
   /\ profiles[Len(profiles)] # FF_PROFILE_UNKNOWN

\* The pieces joined with ','.
RECURSIVE Join(_)
Join(pieces) ==
   IF Len(pieces) = 1 THEN pieces[1]
   ELSE pieces[1] \o <<Comma>> \o Join(Tail(pieces))

\* What an accessor owes for the native string ptr.
IsSplitOf(pieces, ptr) ==
   IF ptr.null THEN pieces = <<>>
   ELSE /\ pieces # <<>>
        /\ \A i \in 1..Len(pieces) :
              \A j \in 1..Len(pieces[i]) : pieces[i][j] \notin {Comma, NUL}
        /\ Join(pieces) \o <<NUL>> =
              SubSeq(ptr.mem, 1, Len(Join(pieces)) + 1)
        /\ ptr.mem = Mp4Example =>
              pieces = <<<<109, 112, 52>>, <<109, 52, 97>>, <<109, 52, 118>>>>

\* C10: Input::extensions() and Input::mime_types() return the empty
\* collection for a null native pointer, and otherwise the pieces of the
\* native string split on ',' from left to right, so that the pieces joined
\* with ',' are the native string ("mp4,m4a,m4v" gives "mp4", "m4a", "m4v").
C10Split ==
   /\ op = "extensions" => IsSplitOf(result, input.extensions)
   /\ op = "mime_types" => IsSplitOf(result, input.mime_type)

\* extensions() on "mp4,m4a,m4v" while mime_type is null.
C10Witness ==
   /\ op = "extensions"
   /\ input.extensions.mem = Mp4Example
   /\ input.mime_type.null
   /\ Len(result) = 3

\* C11: data() of a packet or frame SideData whose size field is s and
\* whose buffer holds at least s bytes from the data pointer on returns
\* exactly the bytes 0..s-1 of the buffer, however large the allocation.
C11Data ==
   \A p \in DOMAIN out :
      (/\ out[p].op = "data"
       /\ heap[p].size >= 0
       /\ heap[p].data + heap[p].size <= Len(heap[p].alloc) + 1) =>
         /\ out[p].ret.tag = "Slice"
         /\ Len(out[p].ret.val) = heap[p].size
         /\ \A i \in 1..heap[p].size :
               out[p].ret.val[i] = heap[p].alloc[heap[p].data + i - 1]

\* data() of a frame SideData of size 2 at the start of a 3-byte allocation.
C11Witness ==
   /\ heap[1].struct = "AVFrameSideData"
   /\ heap[1].alloc = <<255, 0, 255>>
   /\ heap[1].data = 1
   /\ heap[1].size = 2
   /\ out[1].op = "data"
   /\ out[1].ret.val = <<255, 0>>

\* C12: Codec::video() returns Err(Error::InvalidData) whenever the medium
\* of the codec is not Video and Ok(view) when it is, the view referring to
\* the AVCodec pointer of the Codec it was called on; Codec::audio() does
\* the same for Audio.  The error is returned, never replaced by a view.
C12Narrowing ==
   \A p \in DOMAIN out :
      /\ out[p].op = "video" =>
            IF heap[p].type_ = "AVMEDIA_TYPE_VIDEO"
            THEN /\ out[p].ret.tag = "Ok"
                 /\ out[p].ret.val.type = "codec::Video"
                 /\ out[p].ret.val.codec.ptr = p
            ELSE /\ out[p].ret.tag = "Err"
                 /\ out[p].ret.val.error = "InvalidData"
      /\ out[p].op = "audio" =>
            IF heap[p].type_ = "AVMEDIA_TYPE_AUDIO"
            THEN /\ out[p].ret.tag = "Ok"
                 /\ out[p].ret.val.type = "codec::Audio"
                 /\ out[p].ret.val.codec.ptr = p
            ELSE /\ out[p].ret.tag = "Err"
                 /\ out[p].ret.val.error = "InvalidData"

\* video() has failed on an audio codec at one address and succeeded on a
\* video codec at the other.
C12Witness ==
   /\ heap[1].type_ = "AVMEDIA_TYPE_AUDIO"
   /\ out[1].op = "video"
   /\ out[1].ret.tag = "Err"
   /\ heap[2].type_ = "AVMEDIA_TYPE_VIDEO"
   /\ out[2].op = "video"
   /\ out[2].ret.tag = "Ok"
   /\ out[2].ret.val.codec.ptr = 2

\* C13: Rect::wrap(ptr) maps the type_ of the pointee through the subtitle
\* Type bridge and builds exactly the variant of that type: None for None,
\* Bitmap for Bitmap, Text for Text, Ass for Ass; whichever variant was
\* built, Rect::as_ptr() returns the pointer given to wrap.
C13Wrap ==
   \A p \in DOMAIN views :
      views[p] # NoView =>
         /\ views[p].type = "Rect"
         /\ heap[p].type_ = "SUBTITLE_NONE" =>
               views[p].variant = "None" /\ views[p].ptr = p
         /\ heap[p].type_ = "SUBTITLE_BITMAP" =>
               views[p].variant = "Bitmap" /\ views[p].sub = BitmapWrap(p)
         /\ heap[p].type_ = "SUBTITLE_TEXT" =>
               views[p].variant = "Text" /\ views[p].sub = TextWrap(p)
         /\ heap[p].type_ = "SUBTITLE_ASS" =>
               views[p].variant = "Ass" /\ views[p].sub = AssWrap(p)
         /\ out[p].op = "as_ptr" => out[p].ret.val = p

\* A text rect and an ASS rect have been wrapped and asked for their
\* pointers.
C13Witness ==
   /\ heap[1].type_ = "SUBTITLE_TEXT"
   /\ heap[2].type_ = "SUBTITLE_ASS"
   /\ out[1].op = "as_ptr"
   /\ out[2].op = "as_ptr"
   /\ views[1].variant = "Text"
   /\ views[2].variant = "Ass"
   /\ out[2].ret.val = 2

\* C14: Rect::flags() answers for every variant (None, Bitmap, Text, Ass),
\* and what it answers is the flags field read through the wrapped pointer,
\* whichever variant is active: two Rects of different variants over
\* pointees with equal flags fields return equal Flags.
C14Flags ==
   \A p \in DOMAIN out :
      out[p].op = "flags" =>
         /\ out[p].ret.tag = "Flags"
         /\ out[p].ret.val = heap[p].flags % 2
         /\ \A q \in DOMAIN out :
               (out[q].op = "flags" /\ heap[q].flags = heap[p].flags) =>
                  out[q].ret = out[p].ret

\* flags() on a text rect and on a bitmap rect that are both forced.
C14Witness ==
   /\ heap[1].type_ = "SUBTITLE_TEXT"
   /\ heap[2].type_ = "SUBTITLE_BITMAP"
   /\ heap[1].flags = 1
   /\ heap[2].flags = 1
   /\ out[1].op = "flags"
   /\ out[2].op = "flags"
   /\ out[1].ret.val = 1
   /\ out[2].ret.val = 1

\* C15: time::sleep(usec) returns Ok(()) exactly when av_usleep(usec)
\* returns 0, and Err(Error::from(e)) with the native code e for every
\* other return value e: no failure is swallowed and no success is
\* reported for a code that is not 0.
C15Sleep ==
   slept # NoSleep =>
      /\ slept.ret.tag = "Ok" <=> slept.e = 0
      /\ slept.ret.tag = "Err" <=> slept.e # 0
      /\ slept.e # 0 => slept.ret.val.code = slept.e

\* av_usleep has answered the positive code 1 and sleep has failed with it.
C15Witness ==
   /\ slept.usec = 1000000
   /\ slept.e = 1
   /\ slept.ret.tag = "Err"
   /\ slept.ret.val.code = 1

\* The alias pairs: the domain, the two names, and the feature with which
\* the pair is an alias ("" for always).
AliasPairs ==
   {<<"Pixel", "XVMC", "XVMC_MPEG2_IDCT", "ff_api_xvmc">>,
    <<"Primaries", "JEDEC_P22", "EBU3213", "ffmpeg_4_3">>,
    <<"Space", "YCOCG", "YCGCO", "">>,
    <<"Pixel", "Y400A", "YA8", "">>,
    <<"Pixel", "GRAY8A", "YA8", "">>,
    <<"Pixel", "GBR24P", "GBRP", "">>}

C17Domains == {"PacketType", "FrameType", "Primaries"}

\* Every variant name of d, whatever its gate.
AllVariants(d) == {VariantsOf(d)[i][1] : i \in 1..Len(VariantsOf(d))}

\* Every native constant from_native of d has an arm for, whatever its gate.
AllNatives(d) == {FromArmsOf(d)[i][1] : i \in 1..Len(FromArmsOf(d))} \ {"_"}

\* The variants of d that to_native accepts under profile F.
Accepted(d, F) == {v \in AllVariants(d) : ToNative(d, F, v) # NoArm}

\* The variants of d that from_native returns under profile F.
Returned(d, F) == {FromNative(d, F, n) : n \in AllNatives(d)} \ {NoArm}

\* The variants of d whose feature gate is off under profile F.
GatedOff(d, F) ==
   {VariantsOf(d)[i][1] : i \in {j \in 1..Len(VariantsOf(d)) :
       /\ VariantsOf(d)[j][3] # ""
       /\ (VariantsOf(d)[j][3] \in F) # VariantsOf(d)[j][4]}}

\* C17: for packet side-data Type, frame side-data Type and Primaries, under
\* each profile the declared variants, the variants to_native accepts and
\* the variants from_native returns are one set, and a variant whose
\* feature is off is neither returned by from_native nor accepted by
\* to_native; so every conversion that ran stayed inside that set.
C17VariantSets ==
   /\ \A d \in C17Domains :
         /\ Results(VariantsOf(d), features) = Accepted(d, features)
         /\ Results(VariantsOf(d), features) = Returned(d, features)
         /\ GatedOff(d, features) \cap Returned(d, features) = {}
         /\ GatedOff(d, features) \cap Accepted(d, features) = {}
   /\ (dom \in C17Domains /\ stage \in {"from", "to", "into"}) =>
         safe \in Results(VariantsOf(dom), features) \ GatedOff(dom, features)
   /\ (dom \in C17Domains /\ stage \in {"to", "into"}) => back # NoArm

\* A gated variant of one of the three domains came out of from_native with
\* its feature on and went back through to_native, while another variant of
\* the domain has its feature off.
C17Witness ==
   /\ stage = "to"
   /\ dom \in C17Domains
   /\ \E i \in 1..Len(VariantsOf(dom)) :
         /\ VariantsOf(dom)[i][1] = safe
         /\ VariantsOf(dom)[i][3] # ""
   /\ GatedOff(dom, features) # {}
   /\ back = native

\* C18: for Pixel, in every feature profile, every variant of the
\* enumeration has a to_native arm and every native pixel format to_native
\* can return has a from_native arm: whatever Pixel the program names,
\* to_native gives a value and from_native is defined on that value.
C18LockStep ==
   (stage = "into" /\ dom = "Pixel") =>
      /\ back # NoArm
      /\ \A big \in BOOLEAN :
            PixelFrom(features, NativeEndian(back, big)) # NoArm

\* C19: every accessor of Codec, Input, Chapter, packet and frame SideData,
\* Rect, Bitmap, Text, Ass and the pixel Descriptor leaves the native
\* pointee and the wrapped pointer as they were, so the native state after
\* any sequence of calls is the state before it; the only wrapper state
\* that changes is the cursor of a ProfileIter, inside next().
C19ReadOnly ==
   [][/\ heap' = heap
      /\ input' = input
      /\ profiles' = profiles
      /\ \A p \in DOMAIN views : views[p] # NoView => views'[p] = views[p]
      /\ iter # NoIter =>
            \/ iter' = iter
            \/ /\ calls' = calls + 1
               /\ iter' = [iter EXCEPT !.ptr = iter.ptr + 1]]_vars

\* picture() was called on the Bitmap of a rect, next() has moved the
\* cursor of a profile iterator and extensions() was called on an Input.
C19Witness ==
   /\ \E p \in DOMAIN out :
         /\ out[p].op = "picture"
         /\ views[p].type = "Rect"
         /\ views[p].variant = "Bitmap"
   /\ iter # NoIter
   /\ iter.ptr > 1
   /\ op = "extensions"

C21DecisionTotal ==
   (dom = "Decision" /\ stage # "idle" /\ path = "") =>
      /\ stage # "undefined"
      /\ safe = CASE native = "FF_MB_DECISION_SIMPLE" -> "Simple"
                  [] native = "FF_MB_DECISION_BITS" -> "Bits"
                  [] native = "FF_MB_DECISION_RD" -> "RateDistortion"
                  [] OTHER -> "Simple"

\* Decision::from was given an integer that is none of the three constants
\* and returned.
C21Witness ==
   /\ dom = "Decision"
   /\ stage = "from"
   /\ native \in UnknownNative
   /\ safe = "Simple"

\* C22: on an array whose first FF_PROFILE_UNKNOWN is at index n (counted
\* from 0), calling next() again and again eventually returns None: the
\* calls before the (n+1)th return entries, the (n+1)th and every later one
\* return None, and the sequence produced has n entries.
C22Terminates ==
   /\ (iter # NoIter) ~> (calls > 0 /\ ret.tag = "None")
   /\ [](calls > 0 =>
            ((ret.tag = "None") <=> calls >= FirstSentinel(profiles)))
   /\ [](Len(yielded) < FirstSentinel(profiles))

\* The call that returned None for the first time, on an array with two
\* entries or more before its terminator.
C22Witness ==
   /\ calls = FirstSentinel(profiles)
   /\ FirstSentinel(profiles) > 2
   /\ ret.tag = "None"
   /\ Len(yielded) = FirstSentinel(profiles) - 1

\* C23: Codec::description() on a codec whose long_name is null yields the
\* absent value of an option, not a string; on a non-null long_name it
\* yields exactly the bytes before the terminator.
C23Description ==
   \A p \in DOMAIN out :
      out[p].op = "description" =>
         IF heap[p].long_name.null THEN out[p].ret.tag = "None"
         ELSE /\ out[p].ret.tag # "None"
              /\ out[p].ret.val = CStrToBytes(heap[p].long_name.mem)

\* C24: Codec::profiles() returns None exactly when the codec's native
\* profiles pointer is null; otherwise it returns an iterator whose cursor
\* is the profiles pointer, the first element of the array, and whose id
\* is what Codec::id() gives on the same codec.
C24Profiles ==
   \A p \in DOMAIN out :
      out[p].op = "profiles" =>
         /\ (out[p].ret.tag = "None") <=> (heap[p].profiles = 0)
         /\ heap[p].profiles # 0 =>
               /\ out[p].ret.tag = "Some"
               /\ out[p].ret.val.ptr = heap[p].profiles
               /\ out[p].ret.val.id = CodecId(views[p], heap)

\* profiles() returned an iterator for a VP9 codec and None for a codec
\* with a null profiles pointer.
C24Witness ==
   \E p \in DOMAIN out :
      \E q \in DOMAIN out :
         /\ out[p].op = "profiles"
         /\ out[q].op = "profiles"
         /\ heap[p].profiles = 5
         /\ heap[p].id = "AV_CODEC_ID_VP9"
         /\ out[p].ret.tag = "Some"
         /\ heap[q].profiles = 0
         /\ out[q].ret.tag = "None"

\* The domains whose from_native folds the NB constant into another variant.
NbFolded == {"Primaries", "Range", "Space", "TransferCharacteristic", "Pixel"}

\* C25: from_native loses information on the NB sentinels only: for every
\* native constant n that has a from_native arm and is not the NB constant
\* of Primaries, Range, Space, TransferCharacteristic or Pixel,
\* to_native(from_native(n)) = n (AV_PKT_DATA_NB included, kept as DataNb);
\* for these five NB constants to_native(from_native(NB)) is another value.
C25ThereAndBack ==
   (stage = "to" /\ native \in KnownNative(dom, features)) =>
      IF dom \in NbFolded /\ native = NbOf(dom)
      THEN back # native /\ back # NoArm
      ELSE back = native

\* The NB constant of the transfer characteristics went through
\* from_native and to_native and came back as another constant.
C25Witness ==
   /\ stage = "to"
   /\ dom = "TransferCharacteristic"
   /\ native = "AVCOL_TRC_NB"
   /\ back = "AVCOL_TRC_RESERVED0"

\* The native-endian variants of Pixel: those to_native turns into a
\* native-endian name.
EndianVariants ==
   {PixelToArms[i][1] : i \in {j \in 1..Len(PixelToArms) :
       \E k \in 1..Len(PixelNativeEndian) :
          PixelNativeEndian[k][1] = PixelToArms[j][2]}}

\* C26: the native-endian variants of Pixel (RGB32 .. AYUV64) are accepted
\* by to_native and never returned by from_native, whatever the native
\* value; such a variant converted to native and back is another, endian-
\* specific Pixel, so from_native(to_native(v)) = v does not hold for them.
C26EndianAliases ==
   /\ (stage = "from" /\ dom = "Pixel") => safe \notin EndianVariants
   /\ (stage = "into" /\ safe \in EndianVariants) => back # NoArm
   /\ (stage = "back" /\ dom = "Pixel") => again \notin EndianVariants
   /\ (stage = "back" /\ safe \in EndianVariants) =>
         /\ again # safe
         /\ again \in Results(PixelVariants, features)

\* Pixel::RGB32 went to native and came back as Pixel::BGRA (a
\* little-endian target).
C26Witness ==
   /\ stage = "back"
   /\ path = "RGB32"
   /\ back = "AV_PIX_FMT_RGB32"
   /\ again = "BGRA"

\* pieces has one entry more than the string behind ptr has commas, with
\* empty entries where a comma leads, trails or follows another; none at
\* all only for a null ptr.
CountsAs(pieces, ptr) ==
   IF ptr.null THEN pieces = <<>>
   ELSE LET s == CStrToBytes(ptr.mem)
            commas == {i \in 1..Len(s) : s[i] = Comma}
        IN  /\ Len(pieces) = Cardinality(commas) + 1
            /\ pieces # <<>>
            /\ s = <<>> => pieces = <<<<>>>>
            /\ 1 \in commas => pieces[1] = <<>>
            /\ (s # <<>> /\ Len(s) \in commas) => pieces[Len(pieces)] = <<>>
            /\ \A i \in commas :
                  (i + 1) \in commas =>
                     pieces[Cardinality({j \in commas : j <= i}) + 1] = <<>>

\* C27: for a non-null native string Input::extensions() and
\* Input::mime_types() never return an empty collection: k commas give
\* exactly k+1 entries, the empty string gives the single entry "", and
\* leading, trailing or consecutive commas give empty entries; only a null
\* pointer gives no entry.
C27Entries ==
   /\ op = "extensions" => CountsAs(result, input.extensions)
   /\ op = "mime_types" => CountsAs(result, input.mime_type)

\* extensions() on the string ",," gave three empty entries.
C27Witness ==
   /\ op = "extensions"
   /\ ~input.extensions.null
   /\ CStrToBytes(input.extensions.mem) = <<Comma, Comma>>
   /\ result = <<<<>>, <<>>, <<>>>>


C29Predicates ==
   \A p \in DOMAIN views :
      views[p].type = "Codec" =>
         /\ out[p].op = "is_video" =>
               out[p].ret = (CodecVideo(views[p], heap).tag = "Ok")
         /\ out[p].op = "video" =>
               (out[p].ret.tag = "Ok") = CodecIsVideo(views[p], heap)
         /\ out[p].op = "is_audio" =>
               out[p].ret = (CodecAudio(views[p], heap).tag = "Ok")
         /\ out[p].op = "audio" =>
               (out[p].ret.tag = "Ok") = CodecIsAudio(views[p], heap)
         /\ ~(CodecIsVideo(views[p], heap) /\ CodecIsAudio(views[p], heap))
         /\ (/\ CodecMedium(views[p], heap) \notin {"Video", "Audio"}
             /\ out[p].op \in {"video", "audio"}) =>
               out[p].ret = Err(InvalidData)

\* is_video() was true on a video codec while audio() failed on a
\* subtitle codec.
C29Witness ==
   /\ heap[1].type_ = "AVMEDIA_TYPE_VIDEO"
   /\ out[1].op = "is_video"
   /\ out[1].ret
   /\ heap[2].type_ = "AVMEDIA_TYPE_SUBTITLE"
   /\ out[2].op = "audio"
   /\ out[2].ret = Err(InvalidData)

\* v + 2^words*16 for a negative c_int v and v itself otherwise, as a
\* machine word of words 16-bit limbs.
Wrapped(v, words) ==
   IF v >= 0
   THEN [i \in 1..words |->
           CASE i = 1 -> v % Limb [] i = 2 -> v \div Limb [] OTHER -> 0]
   ELSE LET m == 0 - (v + 1)
        IN  [i \in 1..words |->
               CASE i = 1 -> (Limb - 1) - (m % Limb)
                 [] i = 2 -> (Limb - 1) - (m \div Limb)
                 [] OTHER -> Limb - 1]

\* The casts of Bitmap: field + 2^64 from x(), y() and colors() and
\* field + 2^32 from width() and height() for a negative field, the field
\* itself otherwise.
BitmapCasts ==
   \A p \in DOMAIN out :
      /\ out[p].op = "x" => out[p].ret = Wrapped(heap[p].x, 4)
      /\ out[p].op = "y" => out[p].ret = Wrapped(heap[p].y, 4)
      /\ out[p].op = "colors" => out[p].ret = Wrapped(heap[p].nb_colors, 4)
      /\ out[p].op = "width" => out[p].ret = Wrapped(heap[p].w, 2)
      /\ out[p].op = "height" => out[p].ret = Wrapped(heap[p].h, 2)

=============================================================================
